---------------------------- MODULE Spec2Model ----------------------------
(***************************************************************************)
(* Ethernet frame I/O engine of Tutorials/eth_tutorial.c: the TX and RX    *)
(* DMA descriptor rings, ETH_InitDescriptors, ETH_SendFrame and            *)
(* ETH_ReceiveFrame, together with the DMA engine that shares the          *)
(* descriptors and buffers with the software.                              *)
(*                                                                         *)
(* A 32-bit word is modelled as the set of its set bit positions (0..31),  *)
(* so that bit 31 (OWN) is representable; & is intersection, | is union.   *)
(* A buffer is observed at the byte offsets in Probes: memcpy writes the   *)
(* probe at offset k exactly when k < n, as the code does for every byte.  *)
(***************************************************************************)
EXTENDS Integers, Sequences, FiniteSets, TLC

(* ------------------------------ bounds -------------------------------- *)

\* ETH_SendFrame calls (successful or busy) explored in a transmit run
MaxCalls == 5
\* back-to-back ETH_SendFrame calls explored while the DMA engine is stalled
MaxBurst == 6
\* frames the DMA engine delivers into the RX ring in a receive run
MaxDeliveries == 5
\* calls and deliveries explored in a run that uses both rings
MixCalls == 2
MixDeliveries == 2
\* distinct frame contents a caller may pass / the wire may carry
NumFrames == 3

\* The runs explored: how many ETH_SendFrame calls and how many delivered
\* frames a run may contain, and whether the DMA engine drains the TX ring.
Scenarios ==
    {[calls |-> MaxCalls, deliveries |-> 0, drain |-> TRUE],
     [calls |-> MaxBurst, deliveries |-> 0, drain |-> FALSE],
     [calls |-> 0, deliveries |-> MaxDeliveries, drain |-> TRUE],
     [calls |-> MixCalls, deliveries |-> MixDeliveries, drain |-> TRUE]}

(* -------------------------- 32-bit words ------------------------------ *)

WordBits == 0..31

\* (1U << n)
Bit(n) == {n}

\* the word holding the non-negative integer n < 2^31
ToWord(n) == {i \in 0..30 : (n \div (2^i)) % 2 = 1}

RECURSIVE SumBits(_, _)
SumBits(w, i) ==
    IF i > 30 THEN 0
    ELSE (IF i \in w THEN 2^i ELSE 0) + SumBits(w, i + 1)

\* the integer held by a word whose bit 31 is clear
ToInt(w) == SumBits(w, 0)

\* (w << k) in 32 bits
Shl(w, k) == {i + k : i \in w} \cap WordBits

\* (w >> k)
Shr(w, k) == {i - k : i \in w} \cap WordBits

BitAnd(a, b) == a \cap b

BitOr(a, b) == a \cup b

(* ---------------------- descriptor bit definitions --------------------- *)

ETH_TDES2_B1L_MASK == ToWord(16383)
ETH_TDES3_OWN == Bit(31)
ETH_TDES3_FD == Bit(29)
ETH_TDES3_LD == Bit(28)
ETH_TDES3_CIC_ALL == Shl(ToWord(3), 16)
\* bits 14:0 of TDES3: the frame length field
TDES3_FL_MASK == 0..14

ETH_RDES3_OWN == Bit(31)
ETH_RDES3_IOC == Bit(30)
ETH_RDES3_BUF1V == Bit(24)
ETH_RDES3_PL_MASK == ToWord(32767)
ETH_RDES3_ES == Bit(15)
ETH_RDES3_FD == Bit(29)
ETH_RDES3_LD == Bit(28)

ETH_DMACRCR_RBSZ_SHIFT == 1

ETH_RX_BUF_SIZE == 1536
ETH_TX_BUF_SIZE == 1536
ETH_RX_DESC_CNT == 4
ETH_TX_DESC_CNT == 4

\* sizeof(ETH_DMADescTypeDef): eight 32-bit words
DescSize == 32

(* ------------------------------ memory -------------------------------- *)

\* Link-time placement of the four arrays, in declaration order.
RxDescriptorsBase == 603979776
TxDescriptorsBase == RxDescriptorsBase + ETH_RX_DESC_CNT * DescSize
RxBufferBase == TxDescriptorsBase + ETH_TX_DESC_CNT * DescSize
TxBufferBase == RxBufferBase + ETH_RX_DESC_CNT * ETH_RX_BUF_SIZE

\* (uint32_t)&RxDescriptors[i], (uint32_t)&TxDescriptors[i]
RxDescAddr(i) == ToWord(RxDescriptorsBase + i * DescSize)
TxDescAddr(i) == ToWord(TxDescriptorsBase + i * DescSize)
\* (uint32_t)RxBuffer[i], (uint32_t)TxBuffer[i]
RxBufferAddr(i) == ToWord(RxBufferBase + i * ETH_RX_BUF_SIZE)
TxBufferAddr(i) == ToWord(TxBufferBase + i * ETH_TX_BUF_SIZE)

TxSlots == 0..(ETH_TX_DESC_CNT - 1)
RxSlots == 0..(ETH_RX_DESC_CNT - 1)

\* Byte offsets of a slot buffer that the model observes: both ends of every
\* interval cut out by the lengths used below.
Probes == {0, 59, 60, 63, 64, 1517, 1518, 1535}

\* uint16_t length arguments of ETH_SendFrame that fit the slot buffer
Lengths == {0, 64, ETH_TX_BUF_SIZE}
\* packet lengths the DMA engine reports for a frame that fits one RX buffer
PacketLengths == {64, ETH_RX_BUF_SIZE}
\* uint16_t max_length arguments of ETH_ReceiveFrame (main passes 1518)
MaxLengths == {60, 1518}

Frames == 1..NumFrames

\* byte k of frame content f (never 0, distinct for distinct f)
Payload(f, k) == 1 + ((f * 37 + k * 7) % 255)

\* Consecutive frames carry different contents: the content of the n-th
\* frame a caller passes, and of the n-th frame on the wire.
FrameOf(n) == (n % NumFrames) + 1

ZeroDesc == [DESC0 |-> {}, DESC1 |-> {}, DESC2 |-> {}, DESC3 |-> {}]
ZeroBuf == [o \in Probes |-> 0]

\* Variant: the copy ends where slot i ends.
MemcpyToSlot_StaysInSlot(buf, size, i, f, n) ==
    [j \in DOMAIN buf |->
        [o \in Probes |->
            IF j = i /\ o < n THEN Payload(f, o) ELSE buf[j][o]]]

\* memcpy(buf[i], src, n) on the two-dimensional array buf, src being frame
\* content f: byte k of the copy lands at flat offset i * size + k.
MemcpyToSlot(buf, size, i, f, n) ==
    [j \in DOMAIN buf |->
        [o \in Probes |->
            LET k == (j - i) * size + o
            IN  IF k >= 0 /\ k < n THEN Payload(f, k) ELSE buf[j][o]]]

\* memcpy(buffer, src, n): the caller's buffer after copying n bytes of src
MemcpyFromSlot(buffer, src, n) ==
    [o \in Probes |-> IF o < n THEN src[o] ELSE buffer[o]]

(* ------------------------------ state --------------------------------- *)

VARIABLES
    TxDescriptors,  \* ETH_DMADescTypeDef TxDescriptors[4] (DESC0..DESC3)
    RxDescriptors,  \* ETH_DMADescTypeDef RxDescriptors[4]
    TxBuffer,       \* uint8_t TxBuffer[4][1536], at the probe offsets
    RxBuffer,       \* uint8_t RxBuffer[4][1536], at the probe offsets
    TxDescIdx,      \* software TX cursor
    RxDescIdx,      \* software RX cursor
    ETH_DMA,        \* the DMA channel registers the ring code writes
    rxframe,        \* the caller's receive buffer
    ringsReady,     \* ETH_InitDescriptors has run
    dmaTxCur,       \* DMA engine's own TX descriptor pointer
    dmaRxCur,       \* DMA engine's own RX descriptor pointer
    call,           \* the software call that made the last step, and its result
    nCalls,         \* ETH_SendFrame calls since ETH_InitDescriptors
    nSent,          \* successful ETH_SendFrame calls since ETH_InitDescriptors
    nDelivered,     \* frames the DMA engine has delivered
    caps,           \* the run's bounds on nCalls and nDelivered
    cpu,            \* where the software is inside ETH_SendFrame/ETH_ReceiveFrame
    dma,            \* what the DMA engine's TX and RX channels are doing
    inflight,       \* frames accepted by ETH_SendFrame and not yet received back
    frame,          \* uint8_t *frame of BuildEthernetFrame, byte by byte
    build,          \* the arguments and the return value of BuildEthernetFrame
    ETH_MAC,        \* the MAC registers the bring-up code writes
    phy,            \* the registers of the PHY chip behind the MDIO bus
    mdio,           \* where the software is inside ETH_ReadPHY/ETH_WritePHY
    initphy,        \* the locals and the position of ETH_InitPHY
    ETH_MTL,        \* the MTL queue registers ETH_StartMAC writes
    main,           \* where main is, and what it has called so far
    rx_buffer,      \* CircularBuffer_t rx_buffer of the UART console
    console,        \* where the console's main loop is, and its local c
    received,       \* the bytes USART3_IRQHandler has read from RDR, in order
    consumed,       \* the bytes Buffer_Get has returned to the main loop, in order
    game,           \* the reaction game: its globals and where its main is
    metronome,      \* the LED metronome: its flash sector and its settings
    clock           \* the digital clock: the time and the alarm it sets

\* the state of the frame I/O engine
ethVars == <<TxDescriptors, RxDescriptors, TxBuffer, RxBuffer, TxDescIdx,
             RxDescIdx, ETH_DMA, rxframe, ringsReady, dmaTxCur, dmaRxCur,
             call, nCalls, nSent, nDelivered, caps, cpu, dma>>
\* the state of BuildEthernetFrame
buildVars == <<frame, build>>
\* the state of the bring-up sequence of main
bringupVars == <<ETH_MAC, ETH_MTL, phy, mdio, initphy, main>>
\* the state of the UART console (project4_uart_console.c)
uartVars == <<rx_buffer, console, received, consumed>>

\* the state of the three other tutorial projects
projVars == <<game, metronome, clock>>

vars == <<ethVars, inflight, buildVars, bringupVars, uartVars, projVars>>

NoCall == [op |-> "none", data |-> 0, length |-> 0, idx |-> 0, ret |-> 0]

\* The software is in neither function.
CpuIdle ==
    [fn |-> "idle", at |-> 0, d |-> 0, f |-> 0, length |-> 0, max |-> 0,
     path |-> "", done |-> {}]

\* Both DMA channels are between descriptors.
DmaIdle == [tx |-> "idle", rx |-> "idle", pl |-> 0, es |-> FALSE]

\* The software-visible memory as one record, so that a statement of the
\* code is a function from memory to memory.
Mem ==
    [TxDescriptors |-> TxDescriptors, RxDescriptors |-> RxDescriptors,
     TxBuffer |-> TxBuffer, RxBuffer |-> RxBuffer,
     TxDescIdx |-> TxDescIdx, RxDescIdx |-> RxDescIdx,
     ETH_DMA |-> ETH_DMA, rxframe |-> rxframe]

Store(m) ==
    /\ TxDescriptors' = m.TxDescriptors
    /\ RxDescriptors' = m.RxDescriptors
    /\ TxBuffer' = m.TxBuffer
    /\ RxBuffer' = m.RxBuffer
    /\ TxDescIdx' = m.TxDescIdx
    /\ RxDescIdx' = m.RxDescIdx
    /\ ETH_DMA' = m.ETH_DMA
    /\ rxframe' = m.rxframe

\* Zero-initialised globals and reset-value registers, before main runs.
EthReset ==
    /\ TxDescriptors = [i \in TxSlots |-> ZeroDesc]
    /\ RxDescriptors = [i \in RxSlots |-> ZeroDesc]
    /\ TxBuffer = [i \in TxSlots |-> ZeroBuf]
    /\ RxBuffer = [i \in RxSlots |-> ZeroBuf]
    /\ TxDescIdx = 0
    /\ RxDescIdx = 0
    /\ ETH_DMA = [DMACTDLAR |-> {}, DMACRDLAR |-> {}, DMACTDRLR |-> {},
                  DMACRDRLR |-> {}, DMACRCR |-> {}, DMACTDTPR |-> {},
                  DMACRDTPR |-> {}, DMAMR |-> {}, DMACTCR |-> {}]
    /\ rxframe = ZeroBuf
    /\ ringsReady = FALSE
    /\ dmaTxCur = 0
    /\ dmaRxCur = 0
    /\ call = NoCall
    /\ nCalls = 0
    /\ nSent = 0
    /\ nDelivered = 0
    /\ cpu = CpuIdle
    /\ dma = DmaIdle

\* ... in one of the runs explored
EthInit ==
    /\ EthReset
    /\ caps \in Scenarios


(* ------------------------ ETH_InitDescriptors -------------------------- *)

\* RxDescriptors[i].DESC3 of an armed descriptor (the exercise's solution)
RxArmWord == BitOr(BitOr(ETH_RDES3_OWN, ETH_RDES3_IOC), ETH_RDES3_BUF1V)

ArmedRxDesc(i) ==
    [DESC0 |-> RxBufferAddr(i), DESC1 |-> {}, DESC2 |-> {}, DESC3 |-> RxArmWord]

\* Variant: the descriptors and registers are set up, the cursors are left
\* where they were.
InitDescriptors_KeepsCursors(m) ==
    [m EXCEPT
        !.TxDescriptors = [i \in TxSlots |-> ZeroDesc],
        !.RxDescriptors = [i \in RxSlots |-> ArmedRxDesc(i)],
        !.ETH_DMA = [@ EXCEPT
            !.DMACTDLAR = TxDescAddr(0),
            !.DMACRDLAR = RxDescAddr(0),
            !.DMACTDRLR = ToWord(ETH_TX_DESC_CNT - 1),
            !.DMACRDRLR = ToWord(ETH_RX_DESC_CNT - 1),
            !.DMACRCR = Shl(ToWord(ETH_RX_BUF_SIZE), ETH_DMACRCR_RBSZ_SHIFT),
            !.DMACTDTPR = TxDescAddr(0),
            !.DMACRDTPR = RxDescAddr(ETH_RX_DESC_CNT - 1)]]

\* Variant: the ring length registers hold the descriptor count instead of
\* count - 1.
InitDescriptors_LengthIsCount(m) ==
    [InitDescriptors_KeepsCursors(m) EXCEPT
        !.ETH_DMA.DMACTDRLR = ToWord(ETH_TX_DESC_CNT),
        !.ETH_DMA.DMACRDRLR = ToWord(ETH_RX_DESC_CNT),
        !.TxDescIdx = 0,
        !.RxDescIdx = 0]

InitDescriptors(m) ==
    [m EXCEPT
        !.TxDescriptors = [i \in TxSlots |-> ZeroDesc],
        !.RxDescriptors = [i \in RxSlots |-> ArmedRxDesc(i)],
        !.ETH_DMA = [@ EXCEPT
            !.DMACTDLAR = TxDescAddr(0),
            !.DMACRDLAR = RxDescAddr(0),
            !.DMACTDRLR = ToWord(ETH_TX_DESC_CNT - 1),
            !.DMACRDRLR = ToWord(ETH_RX_DESC_CNT - 1),
            !.DMACRCR = Shl(ToWord(ETH_RX_BUF_SIZE), ETH_DMACRCR_RBSZ_SHIFT),
            !.DMACTDTPR = TxDescAddr(0),
            !.DMACRDTPR = RxDescAddr(ETH_RX_DESC_CNT - 1)],
        !.TxDescIdx = 0,
        !.RxDescIdx = 0]

\* A call of ETH_InitDescriptors; writing the list address registers makes
\* the DMA engine start again from the first descriptor of each ring.
InitDescriptorsCall ==
    /\ \E m \in {InitDescriptors(Mem)} : Store(m)
    /\ ringsReady' = TRUE
    /\ dmaTxCur' = 0
    /\ dmaRxCur' = 0
    /\ call' = [NoCall EXCEPT !.op = "init"]
    /\ nCalls' = 0
    /\ nSent' = 0
    /\ UNCHANGED <<nDelivered, caps, cpu, dma>>

\* main calls ETH_InitDescriptors once, before any frame traffic.
ETH_InitDescriptors ==
    /\ ~ringsReady
    /\ InitDescriptorsCall

\* ETH_InitDescriptors called again, on rings that have carried traffic.
ETH_InitDescriptorsAgain ==
    /\ ringsReady
    /\ cpu = CpuIdle
    /\ call.op # "init"
    /\ InitDescriptorsCall

(* --------------------------- ETH_SendFrame ----------------------------- *)

\* Variant: the availability check tests First-Descriptor instead of OWN.
TxDescBusy_TestsFD(desc) == BitAnd(desc.DESC3, ETH_TDES3_FD) # {}

\* desc->DESC3 & ETH_TDES3_OWN
TxDescBusy(desc) == BitAnd(desc.DESC3, ETH_TDES3_OWN) # {}

\* Variant: the buffer length is masked to 10 bits instead of 14.
TxDesc2Word_ShortMask(length) == BitAnd(ToWord(length), ToWord(1023))

\* length & ETH_TDES2_B1L_MASK
TxDesc2Word(length) == BitAnd(ToWord(length), ETH_TDES2_B1L_MASK)

\* Variant: the control word is written without OWN.
TxDesc3Word_NoOwn(length) ==
    BitOr(BitOr(BitOr(ETH_TDES3_FD, ETH_TDES3_LD), ETH_TDES3_CIC_ALL),
          ToWord(length))

\* ETH_TDES3_OWN | ETH_TDES3_FD | ETH_TDES3_LD | ETH_TDES3_CIC_ALL | length
TxDesc3Word(length) ==
    BitOr(BitOr(BitOr(BitOr(ETH_TDES3_OWN, ETH_TDES3_FD), ETH_TDES3_LD),
                ETH_TDES3_CIC_ALL),
          ToWord(length))

\* Variant: the cursor wraps one slot early.
NextTxIdx_WrapsEarly(i) == (i + 1) % (ETH_TX_DESC_CNT - 1)

\* (TxDescIdx + 1) % ETH_TX_DESC_CNT
NextTxIdx(i) == (i + 1) % ETH_TX_DESC_CNT

\* One statement of ETH_SendFrame after the OWN check; d is the descriptor
\* that the local pointer desc was bound to on entry.
SendStmt(s, m, d, f, length) ==
    CASE s = "copy" ->
            [m EXCEPT !.TxBuffer =
                MemcpyToSlot(@, ETH_TX_BUF_SIZE, m.TxDescIdx, f, length)]
      [] s = "desc0" ->
            [m EXCEPT !.TxDescriptors[d].DESC0 = TxBufferAddr(m.TxDescIdx)]
      [] s = "desc1" ->
            [m EXCEPT !.TxDescriptors[d].DESC1 = {}]
      [] s = "desc2" ->
            [m EXCEPT !.TxDescriptors[d].DESC2 = TxDesc2Word(length)]
      [] s = "desc3" ->
            [m EXCEPT !.TxDescriptors[d].DESC3 = TxDesc3Word(length)]
      [] s = "idx" ->
            [m EXCEPT !.TxDescIdx = NextTxIdx(m.TxDescIdx)]
      [] s = "tail" ->
            [m EXCEPT !.ETH_DMA.DMACTDTPR = TxDescAddr(m.TxDescIdx)]

\* Variant: the descriptor is handed to the DMA engine before the data is
\* copied into the buffer.
SendOrder_OwnBeforeCopy ==
    <<"desc0", "desc1", "desc2", "desc3", "copy", "idx", "tail">>

\* Variant: the tail pointer is written before the cursor advances.
SendOrder_TailBeforeIdx ==
    <<"copy", "desc0", "desc1", "desc2", "desc3", "tail", "idx">>

\* The statements of ETH_SendFrame in program order.
SendOrder == <<"copy", "desc0", "desc1", "desc2", "desc3", "idx", "tail">>

RECURSIVE RunSend(_, _, _, _, _)
RunSend(m, d, f, length, k) ==
    IF k > Len(SendOrder) THEN m
    ELSE RunSend(SendStmt(SendOrder[k], m, d, f, length), d, f, length, k + 1)

\* ETH_SendFrame(data, length) as a function: the memory it leaves and the
\* value it returns.
SendFrame(m, f, length) ==
    LET d == m.TxDescIdx
    IN  IF TxDescBusy(m.TxDescriptors[d])
        THEN [mem |-> m, ret |-> 0]
        ELSE [mem |-> RunSend(m, d, f, length, 1), ret |-> 1]

ETH_SendFrame(f, length) ==
    /\ ringsReady
    /\ cpu = CpuIdle
    /\ nCalls < caps.calls
    /\ \E r \in {SendFrame(Mem, f, length)} :
           /\ Store(r.mem)
           /\ call' = [op |-> "send", data |-> f, length |-> length,
                       idx |-> TxDescIdx, ret |-> r.ret]
           /\ nSent' = nSent + r.ret
    /\ nCalls' = nCalls + 1
    /\ UNCHANGED <<ringsReady, dmaTxCur, dmaRxCur, nDelivered, caps, cpu, dma>>

(* -------------------------- ETH_ReceiveFrame --------------------------- *)

\* Variant: the ownership check is inverted.
RxDescBusy_Inverted(desc) == BitAnd(desc.DESC3, ETH_RDES3_OWN) = {}

\* desc->DESC3 & ETH_RDES3_OWN
RxDescBusy(desc) == BitAnd(desc.DESC3, ETH_RDES3_OWN) # {}

\* desc->DESC3 & ETH_RDES3_ES
RxDescError(desc) == BitAnd(desc.DESC3, ETH_RDES3_ES) # {}

\* Variant: the length is clamped to the slot size as well.
RxLength_ClampsToSlot(desc, max_length) ==
    LET length == ToInt(BitAnd(desc.DESC3, ETH_RDES3_PL_MASK))
        clamped == IF length > max_length THEN max_length ELSE length
    IN  IF clamped > ETH_RX_BUF_SIZE THEN ETH_RX_BUF_SIZE ELSE clamped

\* Variant: the packet length is not clamped to max_length.
RxLength_NoClamp(desc, max_length) ==
    ToInt(BitAnd(desc.DESC3, ETH_RDES3_PL_MASK))

\* length = desc->DESC3 & ETH_RDES3_PL_MASK; if (length > max_length) ...
RxLength(desc, max_length) ==
    LET length == ToInt(BitAnd(desc.DESC3, ETH_RDES3_PL_MASK))
    IN  IF length > max_length THEN max_length ELSE length

\* the slots of a ring of size-byte buffers that a copy of n bytes starting
\* at the first byte of slot i reaches
SlotsReached(i, n, size, cnt) ==
    {j \in 0..(cnt - 1) : j >= i /\ (j - i) * size < n}

\* Variant: the cursor skips a slot.
NextRxIdx_SkipsOne(i) == (i + 2) % ETH_RX_DESC_CNT

\* (RxDescIdx + 1) % ETH_RX_DESC_CNT
NextRxIdx(i) == (i + 1) % ETH_RX_DESC_CNT

\* Variant: the tail pointer written at the end is the TX channel's.
RecvStmt_WritesTxTail(s, m, d, length) ==
    CASE s = "copy" ->
            [m EXCEPT !.rxframe =
                MemcpyFromSlot(@, m.RxBuffer[m.RxDescIdx], length)]
      [] s = "desc0" ->
            [m EXCEPT !.RxDescriptors[d].DESC0 = RxBufferAddr(m.RxDescIdx)]
      [] s = "desc3" ->
            [m EXCEPT !.RxDescriptors[d].DESC3 = RxArmWord]
      [] s = "idx" ->
            [m EXCEPT !.RxDescIdx = NextRxIdx(m.RxDescIdx)]
      [] s = "tail" ->
            [m EXCEPT !.ETH_DMA.DMACTDTPR = RxDescAddr(m.RxDescIdx)]

\* One statement of ETH_ReceiveFrame after the OWN check.
RecvStmt(s, m, d, length) ==
    CASE s = "copy" ->
            [m EXCEPT !.rxframe =
                MemcpyFromSlot(@, m.RxBuffer[m.RxDescIdx], length)]
      [] s = "desc0" ->
            [m EXCEPT !.RxDescriptors[d].DESC0 = RxBufferAddr(m.RxDescIdx)]
      [] s = "desc3" ->
            [m EXCEPT !.RxDescriptors[d].DESC3 = RxArmWord]
      [] s = "idx" ->
            [m EXCEPT !.RxDescIdx = NextRxIdx(m.RxDescIdx)]
      [] s = "tail" ->
            [m EXCEPT !.ETH_DMA.DMACRDTPR = RxDescAddr(m.RxDescIdx)]

\* Variant: the error branch re-arms DESC3 but does not restore DESC0.
RecvErrorOrder_NoDesc0 == <<"desc3", "idx">>

\* The statements of the error branch and of the delivery path, in program order.
RecvErrorOrder == <<"desc0", "desc3", "idx">>
RecvOrder == <<"copy", "desc0", "desc3", "idx", "tail">>

RECURSIVE RunRecv(_, _, _, _, _)
RunRecv(order, m, d, length, k) ==
    IF k > Len(order) THEN m
    ELSE RunRecv(order, RecvStmt(order[k], m, d, length), d, length, k + 1)

\* ETH_ReceiveFrame(buffer, max_length) as a function.
ReceiveFrame(m, max_length) ==
    LET d == m.RxDescIdx
        desc == m.RxDescriptors[d]
    IN  IF RxDescBusy(desc)
        THEN [mem |-> m, ret |-> 0]
        ELSE IF RxDescError(desc)
        THEN [mem |-> RunRecv(RecvErrorOrder, m, d, 0, 1), ret |-> 0]
        ELSE LET length == RxLength(desc, max_length)
             IN  [mem |-> RunRecv(RecvOrder, m, d, length, 1), ret |-> length]

ETH_ReceiveFrame(max_length) ==
    /\ ringsReady
    /\ cpu = CpuIdle
    /\ \E r \in {ReceiveFrame(Mem, max_length)} :
           /\ Store(r.mem)
           /\ call' = [op |-> "recv", data |-> 0, length |-> max_length,
                       idx |-> RxDescIdx, ret |-> r.ret]
    /\ UNCHANGED <<ringsReady, dmaTxCur, dmaRxCur, nCalls, nSent, nDelivered,
                   caps, cpu, dma>>

(* ----------------------------- DMA engine ------------------------------ *)

\* The DMA engine may work on a descriptor only while its OWN bit is set.
DmaOwns(desc) == 31 \in desc.DESC3

\* The DMA engine's own pointer moves to the next descriptor of a ring of cnt.
DmaNext(i, cnt) == (i + 1) % cnt

\* The DMA engine transmits the descriptor at its own TX pointer and hands
\* it back by clearing OWN.
DmaTxComplete ==
    /\ ringsReady
    /\ caps.drain
    /\ DmaOwns(TxDescriptors[dmaTxCur])
    /\ TxDescriptors' = [TxDescriptors EXCEPT
                            ![dmaTxCur].DESC3 = @ \ ETH_TDES3_OWN]
    /\ dmaTxCur' = DmaNext(dmaTxCur, ETH_TX_DESC_CNT)
    /\ call' = NoCall
    /\ UNCHANGED <<RxDescriptors, TxBuffer, RxBuffer, TxDescIdx, RxDescIdx,
                   ETH_DMA, rxframe, ringsReady, dmaRxCur, nCalls, nSent,
                   nDelivered, caps, cpu, dma>>

\* RDES3 as the DMA engine writes it back for a received frame: packet
\* length, first and last descriptor, error summary, OWN clear.
RxWriteBackWord(pl, es) ==
    BitOr(BitOr(BitOr(ToWord(pl), ETH_RDES3_FD), ETH_RDES3_LD),
          IF es THEN ETH_RDES3_ES ELSE {})

\* The DMA engine stores a received frame of content f and length pl in the
\* buffer of the descriptor at its own RX pointer, writes the status back
\* (RDES0 no longer holds the buffer address) and hands the descriptor over.
DmaRxDeliver(f, pl, es) ==
    /\ ringsReady
    /\ nDelivered < caps.deliveries
    /\ DmaOwns(RxDescriptors[dmaRxCur])
    /\ RxBuffer' = MemcpyToSlot(RxBuffer, ETH_RX_BUF_SIZE, dmaRxCur, f, pl)
    /\ RxDescriptors' = [RxDescriptors EXCEPT
                            ![dmaRxCur].DESC0 = {},
                            ![dmaRxCur].DESC3 = RxWriteBackWord(pl, es)]
    /\ dmaRxCur' = DmaNext(dmaRxCur, ETH_RX_DESC_CNT)
    /\ nDelivered' = nDelivered + 1
    /\ call' = NoCall
    /\ UNCHANGED <<TxDescriptors, TxBuffer, TxDescIdx, RxDescIdx, ETH_DMA,
                   rxframe, ringsReady, dmaTxCur, nCalls, nSent, caps, cpu,
                   dma>>

\* A received frame of pl bytes ends in the descriptor at the DMA engine's RX
\* pointer: the engine stores in that buffer no more than the size programmed
\* in DMACRCR.RBSZ and writes pl, the length of the whole frame, back.
DmaRxDeliverLong(f, pl) ==
    /\ ringsReady
    /\ nDelivered < caps.deliveries
    /\ DmaOwns(RxDescriptors[dmaRxCur])
    /\ LET rbsz == ToInt(Shr(ETH_DMA.DMACRCR, ETH_DMACRCR_RBSZ_SHIFT))
       IN  RxBuffer' = MemcpyToSlot(RxBuffer, ETH_RX_BUF_SIZE, dmaRxCur, f,
                                    IF pl > rbsz THEN rbsz ELSE pl)
    /\ RxDescriptors' = [RxDescriptors EXCEPT
                            ![dmaRxCur].DESC0 = {},
                            ![dmaRxCur].DESC3 = RxWriteBackWord(pl, FALSE)]
    /\ dmaRxCur' = DmaNext(dmaRxCur, ETH_RX_DESC_CNT)
    /\ nDelivered' = nDelivered + 1
    /\ call' = NoCall
    /\ UNCHANGED <<TxDescriptors, TxBuffer, TxDescIdx, RxDescIdx, ETH_DMA,
                   rxframe, ringsReady, dmaTxCur, nCalls, nSent, caps, cpu,
                   dma>>

(* ------------------------- BuildEthernetFrame -------------------------- *)

\* sizeof(EthernetHeader): two 6-byte addresses and the 16-bit type, packed
EthernetHeaderSize == 14
\* the minimum frame length the padding fills up to
MinFrameLen == 60

\* the leading bytes of main's frame[1518] that the model keeps
FrameBytes == 64
FrameOffsets == 0..(FrameBytes - 1)

\* longest payload passed to BuildEthernetFrame
MaxPayloadLen == 48
PayloadLens == 0..MaxPayloadLen

MyMACAddress == <<2, 0, 0, 0, 0, 1>>
BroadcastMAC == <<255, 255, 255, 255, 255, 255>>
\* the headers built: a broadcast IPv4 frame (main's call) and an ARP frame
\* to a station
Headers ==
    {[dest_mac |-> BroadcastMAC, ethertype |-> 2048],
     [dest_mac |-> <<0, 128, 225, 1, 2, 3>>, ethertype |-> 2054]}

\* what an automatic array holds before it is written, and what an earlier
\* call left in it
StaleByte == 170
StaleFrame == [o \in FrameOffsets |-> StaleByte]

NoBuild ==
    [dest_mac |-> BroadcastMAC, src_mac |-> MyMACAddress, ethertype |-> 0,
     payload |-> 0, payload_len |-> 0, ret |-> 0, done |-> FALSE]

\* memcpy(fr + at, bytes, Len(bytes)) for an array given as a sequence
MemcpySeq(fr, at, bytes) ==
    [o \in DOMAIN fr |->
        IF o >= at /\ o - at < Len(bytes) THEN bytes[o - at + 1] ELSE fr[o]]

\* memcpy(fr + at, payload, n), payload holding frame content f
MemcpyPayload(fr, at, f, n) ==
    [o \in DOMAIN fr |->
        IF o >= at /\ o - at < n THEN Payload(f, o - at) ELSE fr[o]]

\* memset(fr + at, val, n)
Memset(fr, at, val, n) ==
    [o \in DOMAIN fr |-> IF o >= at /\ o - at < n THEN val ELSE fr[o]]

\* Variant: the type stored as the CPU holds it, without the byte swap.
EtherTypeBytes_HostOrder(ethertype) ==
    <<ethertype % 256, (ethertype \div 256) % 256>>

\* hdr->ethertype = ((ethertype >> 8) & 0xFF) | ((ethertype & 0xFF) << 8),
\* stored little-endian at offsets 12 and 13
EtherTypeBytes(ethertype) ==
    LET swapped == ((ethertype \div 256) % 256) + (ethertype % 256) * 256
    IN  <<swapped % 256, swapped \div 256>>

\* uint16_t total_len = sizeof(EthernetHeader) + payload_len
TotalLen(payload_len) == (EthernetHeaderSize + payload_len) % 65536

\* Variant: the padding starts right after the header.
PadFrame_FromHeader(fr, total_len) ==
    IF total_len < MinFrameLen
    THEN [frame |-> Memset(fr, EthernetHeaderSize, 0,
                           MinFrameLen - EthernetHeaderSize),
          total_len |-> MinFrameLen]
    ELSE [frame |-> fr, total_len |-> total_len]

\* if (total_len < 60) { memset(frame + total_len, 0, 60 - total_len);
\*                       total_len = 60; }
PadFrame(fr, total_len) ==
    IF total_len < MinFrameLen
    THEN [frame |-> Memset(fr, total_len, 0, MinFrameLen - total_len),
          total_len |-> MinFrameLen]
    ELSE [frame |-> fr, total_len |-> total_len]

\* BuildEthernetFrame as a function: the frame it leaves and the length it
\* returns.
BuildFrame(fr, dest_mac, src_mac, ethertype, f, payload_len) ==
    LET a == MemcpySeq(fr, 0, dest_mac)
        b == MemcpySeq(a, 6, src_mac)
        c == MemcpySeq(b, 12, EtherTypeBytes(ethertype))
        d == MemcpyPayload(c, EthernetHeaderSize, f, payload_len)
    IN  PadFrame(d, TotalLen(payload_len))

\* One call of BuildEthernetFrame on the caller's frame array, whatever an
\* earlier call left in it.
BuildEthernetFrame(dest_mac, ethertype, f, payload_len) ==
    /\ \E r \in {BuildFrame(frame, dest_mac, MyMACAddress, ethertype, f,
                            payload_len)} :
           /\ frame' = r.frame
           /\ build' = [dest_mac |-> dest_mac, src_mac |-> MyMACAddress,
                        ethertype |-> ethertype, payload |-> f,
                        payload_len |-> payload_len, ret |-> r.total_len,
                        done |-> TRUE]

(* --------------------- MDIO: talking to the PHY ------------------------ *)

ETH_MACCR_RE == Bit(0)
ETH_MACCR_TE == Bit(1)
ETH_MACCR_FES == Bit(14)
ETH_MACCR_DM == Bit(13)

ETH_MACMDIOAR_MB == Bit(0)
ETH_MACMDIOAR_GOC_READ == Shl(ToWord(3), 2)
ETH_MACMDIOAR_GOC_WRITE == Shl(ToWord(1), 2)
ETH_MACMDIOAR_CR_DIV102 == Shl(ToWord(4), 8)

ETH_DMAMR_SWR == Bit(0)
ETH_DMACTCR_ST == Bit(0)
ETH_DMACRCR_SR == Bit(0)

ETH_MTLTQOMR_TSF == Bit(1)
ETH_MTLTQOMR_TQS_SHIFT == 16
ETH_MTLRQOMR_RSF == Bit(5)
ETH_MTLRQOMR_RQS_SHIFT == 20

PHY_ADDR == 0
PHY_BCR == 0
PHY_BSR == 1
PHY_PHYID1 == 2
PHY_PHYID2 == 3

PHY_BCR_RESET == Bit(15)
PHY_BCR_AUTONEG == Bit(12)
PHY_BSR_LINK_UP == Bit(2)

\* the low 16 bits of a word: (uint16_t)(w & 0xFFFF)
Low16(w) == w \cap (0..15)

\* the MAC registers at their reset values
MacReset ==
    [MACCR |-> {}, MACA0HR |-> {}, MACA0LR |-> {}, MACMDIOAR |-> {},
     MACMDIODR |-> {}]

MtlReset == [MTLTQOMR |-> {}, MTLRQOMR |-> {}]

\* Identifier registers of PHY chips an Ethernet board may carry: the one the
\* tutorial expects (0x0007, 0xC130), its sibling that shares PHYID1
\* (0x0007, 0xC0F1), and a chip of another vendor (0x0022, 0x1561).
LAN8742A == [id1 |-> 7, id2 |-> 49456]
\* the chips a board may carry: the LAN8742A, a LAN8720A (0x0007, 0xC0F1) and
\* a KSZ8081 (0x0022, 0x1561)
PhyKinds ==
    {LAN8742A, [id1 |-> 7, id2 |-> 49393], [id1 |-> 34, id2 |-> 5473]}

\* BCR of a PHY out of reset (auto-negotiation, 100 Mbps, full duplex), and
\* BSR of a PHY with its abilities set and no link
PhyBcrDefault == ToWord(12544)
PhyBsrNoLink == ToWord(30729)

\* A PHY of the given kind, out of reset, without link.
PhyChip(kind) ==
    [present |-> TRUE, BCR |-> PhyBcrDefault, BSR |-> PhyBsrNoLink,
     PHYID1 |-> ToWord(kind.id1), PHYID2 |-> ToWord(kind.id2)]

\* No PHY answers at PHY_ADDR: the MDIO line stays pulled up and every read
\* returns 0xFFFF.
PhyAbsent ==
    [present |-> FALSE, BCR |-> ToWord(65535), BSR |-> ToWord(65535),
     PHYID1 |-> ToWord(65535), PHYID2 |-> ToWord(65535)]

\* the register of chip p that MDIO register address reg selects
PhyRegister(p, reg) ==
    CASE reg = PHY_BCR -> p.BCR
      [] reg = PHY_BSR -> p.BSR
      [] reg = PHY_PHYID1 -> p.PHYID1
      [] reg = PHY_PHYID2 -> p.PHYID2
      [] OTHER -> IF p.present THEN {} ELSE ToWord(65535)

\* Chip p after an MDIO write: only BCR is writable; writing the reset bit
\* puts the chip into reset, where the link is down.
PhyWritten(p, reg, value) ==
    IF p.present /\ reg = PHY_BCR
    THEN IF BitAnd(value, PHY_BCR_RESET) # {}
         THEN [p EXCEPT !.BCR = Low16(value), !.BSR = PhyBsrNoLink]
         ELSE [p EXCEPT !.BCR = Low16(value)]
    ELSE p

\* ETH_ReadPHY / ETH_WritePHY is not running.
MdioIdle == [fn |-> "none", at |-> 0, reg |-> 0, value |-> {}, ret |-> {}]

\* The call ETH_ReadPHY(PHY_ADDR, reg) / ETH_WritePHY(PHY_ADDR, reg, value),
\* at its first statement.
CallReadPHY(reg) ==
    [fn |-> "read", at |-> 1, reg |-> reg, value |-> {}, ret |-> {}]
CallWritePHY(reg, value) ==
    [fn |-> "write", at |-> 1, reg |-> reg, value |-> value, ret |-> {}]

\* ((phy_addr & 0x1F) << 21) | ((reg_addr & 0x1F) << 16)
\*     | ETH_MACMDIOAR_CR_DIV102 | goc | ETH_MACMDIOAR_MB
MdioAddressWord(phy_addr, reg_addr, goc) ==
    BitOr(BitOr(BitOr(BitOr(Shl(BitAnd(ToWord(phy_addr), ToWord(31)), 21),
                            Shl(BitAnd(ToWord(reg_addr), ToWord(31)), 16)),
                      ETH_MACMDIOAR_CR_DIV102),
                goc),
          ETH_MACMDIOAR_MB)

\* ETH_MAC->MACMDIOAR & ETH_MACMDIOAR_MB
MdioBusy == BitAnd(ETH_MAC.MACMDIOAR, ETH_MACMDIOAR_MB) # {}

\* while (ETH_MAC->MACMDIOAR & ETH_MACMDIOAR_MB); the loop is left when the
\* busy bit reads clear. After the second wait ETH_ReadPHY returns the data
\* register and ETH_WritePHY returns.
MdioWait ==
    /\ mdio.at \in {1, 3}
    /\ ~MdioBusy
    /\ mdio' = IF mdio.at = 1 THEN [mdio EXCEPT !.at = 2]
               ELSE [mdio EXCEPT !.at = 4,
                                 !.ret = IF mdio.fn = "read"
                                         THEN Low16(ETH_MAC.MACMDIODR)
                                         ELSE {}]
    /\ UNCHANGED <<ETH_MAC, ETH_MTL, phy, initphy, main>>

\* The register writes that start the transaction: ETH_WritePHY stores the
\* data first, both set the busy bit with the address.
MdioStart ==
    /\ mdio.at = 2
    /\ ETH_MAC' = [ETH_MAC EXCEPT
           !.MACMDIODR = IF mdio.fn = "write" THEN mdio.value ELSE @,
           !.MACMDIOAR = MdioAddressWord(PHY_ADDR, mdio.reg,
                             IF mdio.fn = "read" THEN ETH_MACMDIOAR_GOC_READ
                             ELSE ETH_MACMDIOAR_GOC_WRITE)]
    /\ mdio' = [mdio EXCEPT !.at = 3]
    /\ UNCHANGED <<ETH_MTL, phy, initphy, main>>

\* The MAC carries the transaction out on the MDIO bus and clears the busy
\* bit: a read loads the data register from the PHY, a write stores it there.
MdioComplete ==
    /\ MdioBusy
    /\ LET reg == ToInt(Shr(ETH_MAC.MACMDIOAR \cap (16..20), 16))
           isRead == ETH_MACMDIOAR_GOC_READ \subseteq ETH_MAC.MACMDIOAR
       IN  /\ ETH_MAC' = [ETH_MAC EXCEPT
                  !.MACMDIOAR = @ \ ETH_MACMDIOAR_MB,
                  !.MACMDIODR = IF isRead THEN PhyRegister(phy, reg) ELSE @]
           /\ phy' = IF isRead THEN phy
                     ELSE PhyWritten(phy, reg, ETH_MAC.MACMDIODR)
    /\ UNCHANGED <<ETH_MTL, mdio, initphy, main>>

\* The PHY leaves reset by itself: the reset bit self-clears.
PhyResetDone ==
    /\ phy.present
    /\ BitAnd(phy.BCR, PHY_BCR_RESET) # {}
    /\ phy' = [phy EXCEPT !.BCR = PhyBcrDefault]
    /\ UNCHANGED <<ETH_MAC, ETH_MTL, mdio, initphy, main>>

\* The link comes up with a partner on the cable, and goes down without.
PhyLinkChange ==
    /\ phy.present
    /\ BitAnd(phy.BCR, PHY_BCR_RESET) = {}
    /\ phy' = [phy EXCEPT !.BSR =
                  IF BitAnd(@, PHY_BSR_LINK_UP) = {}
                  THEN BitOr(@, PHY_BSR_LINK_UP) ELSE @ \ PHY_BSR_LINK_UP]
    /\ UNCHANGED <<ETH_MAC, ETH_MTL, mdio, initphy, main>>

(* ----------------------------- ETH_InitPHY ----------------------------- *)

\* The polling budgets of ETH_InitPHY, scaled down: the reset poll stands for
\* timeout = 100000, the link poll for timeout = 1000000.
ResetPollBudget == 3
LinkPollBudget == 4

\* ETH_InitPHY has not been called. polls counts the reads of the register
\* being polled since the running poll loop began, autoneg says whether the
\* auto-negotiation write was issued.
InitPhyIdle ==
    [at |-> "idle", timeout |-> 0, id1 |-> {}, id2 |-> {}, ret |-> 0,
     polls |-> 0, autoneg |-> FALSE]

\* if (id1 != 0x0007): id2 was read but takes no part in the comparison
PhyIdMismatch(id1, id2) == id1 # ToWord(7)

\* Variant: the counter is tested before it is decremented (timeout-- == 0).
TimedOut_PostDecrement(timeout) == timeout = 0

\* --timeout; the counter is at least 1 whenever it is decremented
Decremented(timeout) == timeout - 1

\* if (--timeout == 0): TRUE when this decrement uses the budget up
TimedOut(timeout) == Decremented(timeout) = 0

\* ETH_InitPHY returns v; main is about to test the value.
InitPhyReturn(v) ==
    /\ initphy' = [initphy EXCEPT !.at = "returned", !.ret = v]
    /\ mdio' = MdioIdle

\* uint32_t timeout = 100000; ETH_WritePHY(PHY_ADDR, PHY_BCR, PHY_BCR_RESET);
InitPhyEnter ==
    /\ main.pc = "ETH_InitPHY"
    /\ initphy.at = "idle"
    /\ initphy' = [initphy EXCEPT !.at = "reset_write",
                                  !.timeout = ResetPollBudget]
    /\ mdio' = CallWritePHY(PHY_BCR, PHY_BCR_RESET)
    /\ UNCHANGED <<ETH_MAC, ETH_MTL, phy, main>>

\* The code of ETH_InitPHY between the return of one MDIO call and the next
\* call, or the return of ETH_InitPHY.
InitPhyStep ==
    /\ mdio.at = 4
    /\ CASE initphy.at = "reset_write" ->
              /\ initphy' = [initphy EXCEPT !.at = "reset_poll", !.polls = 1]
              /\ mdio' = CallReadPHY(PHY_BCR)
         [] initphy.at = "reset_poll" ->
              IF BitAnd(mdio.ret, PHY_BCR_RESET) # {}
              THEN IF TimedOut(initphy.timeout)
                   THEN InitPhyReturn(0)
                   ELSE /\ initphy' = [initphy EXCEPT
                               !.timeout = Decremented(@), !.polls = @ + 1]
                        /\ mdio' = CallReadPHY(PHY_BCR)
              ELSE /\ initphy' = [initphy EXCEPT !.at = "id1"]
                   /\ mdio' = CallReadPHY(PHY_PHYID1)
         [] initphy.at = "id1" ->
              /\ initphy' = [initphy EXCEPT !.at = "id2", !.id1 = mdio.ret]
              /\ mdio' = CallReadPHY(PHY_PHYID2)
         [] initphy.at = "id2" ->
              IF PhyIdMismatch(initphy.id1, mdio.ret)
              THEN /\ initphy' = [initphy EXCEPT !.at = "returned", !.ret = 0,
                                                 !.id2 = mdio.ret]
                   /\ mdio' = MdioIdle
              ELSE /\ initphy' = [initphy EXCEPT !.at = "autoneg_write",
                                      !.id2 = mdio.ret, !.autoneg = TRUE]
                   /\ mdio' = CallWritePHY(PHY_BCR, PHY_BCR_AUTONEG)
         [] initphy.at = "autoneg_write" ->
              /\ initphy' = [initphy EXCEPT !.at = "link_poll",
                                 !.timeout = LinkPollBudget, !.polls = 1]
              /\ mdio' = CallReadPHY(PHY_BSR)
         [] initphy.at = "link_poll" ->
              IF BitAnd(mdio.ret, PHY_BSR_LINK_UP) = {}
              THEN IF TimedOut(initphy.timeout)
                   THEN InitPhyReturn(0)
                   ELSE /\ initphy' = [initphy EXCEPT
                               !.timeout = Decremented(@), !.polls = @ + 1]
                        /\ mdio' = CallReadPHY(PHY_BSR)
              ELSE InitPhyReturn(1)
         [] OTHER -> FALSE
    /\ UNCHANGED <<ETH_MAC, ETH_MTL, phy, main>>

(* ------------------------ main of eth_tutorial.c ----------------------- *)

\* main has not been entered. done holds the set-up functions that returned,
\* len the value BuildEthernetFrame returned.
MainIdle == [pc |-> "off", len |-> 0, done |-> {}]

\* sizeof(test_data), "Hello Ethernet!" with its terminator
TestDataSize == 16
\* the frame content main sends
TestData == 1
\* sizeof(rxframe)
RxFrameSize == 1518

\* ETH_EnableClocks(); ETH_ConfigureGPIO(); ETH_SelectRMII(); the clock, pin
\* and interface-selection registers they write are read by no later step.
MainSetup ==
    /\ main.pc \in {"ETH_EnableClocks", "ETH_ConfigureGPIO", "ETH_SelectRMII"}
    /\ main' = [main EXCEPT
           !.pc = CASE @ = "ETH_EnableClocks" -> "ETH_ConfigureGPIO"
                    [] @ = "ETH_ConfigureGPIO" -> "ETH_SelectRMII"
                    [] @ = "ETH_SelectRMII" -> "ETH_DMAReset",
           !.done = @ \cup {main.pc}]
    /\ UNCHANGED <<ethVars, ETH_MAC, ETH_MTL, phy, mdio, initphy>>

\* ETH_DMAReset: ETH_DMA->DMAMR |= ETH_DMAMR_SWR;
MainDMAReset ==
    /\ main.pc = "ETH_DMAReset"
    /\ ETH_DMA' = [ETH_DMA EXCEPT !.DMAMR = BitOr(@, ETH_DMAMR_SWR)]
    /\ main' = [main EXCEPT !.pc = "ETH_DMAReset_wait"]
    /\ UNCHANGED <<TxDescriptors, RxDescriptors, TxBuffer, RxBuffer,
                   TxDescIdx, RxDescIdx, rxframe, ringsReady, dmaTxCur,
                   dmaRxCur, call, nCalls, nSent, nDelivered, caps, cpu, dma,
                   ETH_MAC, ETH_MTL, phy, mdio, initphy>>

\* while (ETH_DMA->DMAMR & ETH_DMAMR_SWR); left when the bit reads clear
MainDMAResetWait ==
    /\ main.pc = "ETH_DMAReset_wait"
    /\ BitAnd(ETH_DMA.DMAMR, ETH_DMAMR_SWR) = {}
    /\ main' = [main EXCEPT !.pc = "ETH_InitPHY",
                            !.done = @ \cup {"ETH_DMAReset"}]
    /\ UNCHANGED <<ethVars, ETH_MAC, ETH_MTL, phy, mdio, initphy>>

\* The DMA engine finishes its software reset and clears SWR.
DmaResetDone ==
    /\ BitAnd(ETH_DMA.DMAMR, ETH_DMAMR_SWR) # {}
    /\ ETH_DMA' = [ETH_DMA EXCEPT !.DMAMR = @ \ ETH_DMAMR_SWR]
    /\ UNCHANGED <<TxDescriptors, RxDescriptors, TxBuffer, RxBuffer,
                   TxDescIdx, RxDescIdx, rxframe, ringsReady, dmaTxCur,
                   dmaRxCur, call, nCalls, nSent, nDelivered, caps, cpu, dma,
                   bringupVars>>

\* Variant: the value ETH_InitPHY returned is not looked at.
AfterInitPHY_Ignored(ret) == "ETH_SetMACAddress"

\* if (!ETH_InitPHY()) { while(1); } and ETH_SetMACAddress otherwise
AfterInitPHY(ret) == IF ret = 0 THEN "halt" ELSE "ETH_SetMACAddress"

MainCheckPHY ==
    /\ main.pc = "ETH_InitPHY"
    /\ initphy.at = "returned"
    /\ main' = [main EXCEPT !.pc = AfterInitPHY(initphy.ret),
                            !.done = @ \cup {"ETH_InitPHY"}]
    /\ UNCHANGED <<ethVars, ETH_MAC, ETH_MTL, phy, mdio, initphy>>

\* while(1); after a failed ETH_InitPHY
MainHalt ==
    /\ main.pc = "halt"
    /\ UNCHANGED <<ethVars, bringupVars>>

\* addr[0] | (addr[1] << 8) | (addr[2] << 16) | (addr[3] << 24)
MacAddrLow(addr) ==
    BitOr(BitOr(ToWord(addr[1]), Shl(ToWord(addr[2]), 8)),
          BitOr(Shl(ToWord(addr[3]), 16), Shl(ToWord(addr[4]), 24)))

\* (1U << 31) | (addr[5] << 8) | addr[4]
MacAddrHigh(addr) ==
    BitOr(Bit(31), BitOr(Shl(ToWord(addr[6]), 8), ToWord(addr[5])))

\* ETH_SetMACAddress(MyMACAddress)
MainSetMACAddress ==
    /\ main.pc = "ETH_SetMACAddress"
    /\ ETH_MAC' = [ETH_MAC EXCEPT !.MACA0LR = MacAddrLow(MyMACAddress),
                                  !.MACA0HR = MacAddrHigh(MyMACAddress)]
    /\ main' = [main EXCEPT !.pc = "ETH_InitDescriptors",
                            !.done = @ \cup {"ETH_SetMACAddress"}]
    /\ UNCHANGED <<ethVars, ETH_MTL, phy, mdio, initphy>>

\* ETH_InitDescriptors()
MainInitDescriptors ==
    /\ main.pc = "ETH_InitDescriptors"
    /\ ETH_InitDescriptors
    /\ main' = [main EXCEPT !.pc = "ETH_StartMAC",
                            !.done = @ \cup {"ETH_InitDescriptors"}]
    /\ UNCHANGED <<ETH_MAC, ETH_MTL, phy, mdio, initphy>>

\* ETH_DMA->DMACTCR |= ETH_DMACTCR_ST; ETH_DMA->DMACRCR |= ETH_DMACRCR_SR;
StartedDma(d) ==
    [d EXCEPT !.DMACTCR = BitOr(@, ETH_DMACTCR_ST),
              !.DMACRCR = BitOr(@, ETH_DMACRCR_SR)]

\* ETH_StartMAC(): the MTL queues, the MAC configuration with transmitter
\* and receiver enabled (the exercise's solution), then the DMA channels.
MainStartMAC ==
    /\ main.pc = "ETH_StartMAC"
    /\ ETH_MTL' = [MTLTQOMR |-> BitOr(ETH_MTLTQOMR_TSF,
                                      Shl(ToWord(7), ETH_MTLTQOMR_TQS_SHIFT)),
                   MTLRQOMR |-> BitOr(ETH_MTLRQOMR_RSF,
                                      Shl(ToWord(7), ETH_MTLRQOMR_RQS_SHIFT))]
    /\ ETH_MAC' = [ETH_MAC EXCEPT !.MACCR =
                      BitOr(BitOr(ETH_MACCR_FES, ETH_MACCR_DM),
                            BitOr(ETH_MACCR_TE, ETH_MACCR_RE))]
    /\ ETH_DMA' = StartedDma(ETH_DMA)
    /\ main' = [main EXCEPT !.pc = "BuildEthernetFrame",
                            !.done = @ \cup {"ETH_StartMAC"}]
    /\ UNCHANGED <<TxDescriptors, RxDescriptors, TxBuffer, RxBuffer,
                   TxDescIdx, RxDescIdx, rxframe, ringsReady, dmaTxCur,
                   dmaRxCur, call, nCalls, nSent, nDelivered, caps, cpu, dma,
                   phy, mdio, initphy>>

\* The DMA channels run once ETH_StartMAC has set their start bits.
DmaStarted ==
    /\ BitAnd(ETH_DMA.DMACTCR, ETH_DMACTCR_ST) # {}
    /\ BitAnd(ETH_DMA.DMACRCR, ETH_DMACRCR_SR) # {}

\* len = BuildEthernetFrame(frame, BroadcastMAC, MyMACAddress, 0x0800,
\*                          test_data, sizeof(test_data));
MainBuild ==
    /\ main.pc = "BuildEthernetFrame"
    /\ BuildEthernetFrame(BroadcastMAC, 2048, TestData, TestDataSize)
    /\ main' = [main EXCEPT !.pc = "ETH_SendFrame", !.len = build'.ret]
    /\ UNCHANGED <<ethVars, ETH_MAC, ETH_MTL, phy, mdio, initphy>>

\* ETH_SendFrame(frame, len); the return value is not looked at
MainSend ==
    /\ main.pc = "ETH_SendFrame"
    /\ ETH_SendFrame(TestData, main.len)
    /\ main' = [main EXCEPT !.pc = "delay"]
    /\ UNCHANGED <<ETH_MAC, ETH_MTL, phy, mdio, initphy>>

\* delay(10000000);
MainDelay ==
    /\ main.pc = "delay"
    /\ main' = [main EXCEPT !.pc = "ETH_ReceiveFrame"]
    /\ UNCHANGED <<ethVars, ETH_MAC, ETH_MTL, phy, mdio, initphy>>

\* uint16_t rx_len = ETH_ReceiveFrame(rxframe, sizeof(rxframe));
MainReceive ==
    /\ main.pc = "ETH_ReceiveFrame"
    /\ ETH_ReceiveFrame(RxFrameSize)
    /\ main' = [main EXCEPT !.pc = "ETH_SendFrame"]
    /\ UNCHANGED <<ETH_MAC, ETH_MTL, phy, mdio, initphy>>

(* ------------- UART console: circular buffer of received bytes -------- *)

RX_BUFFER_SIZE == 64

\* bytes the USART receives in a run
MaxRxBytes == 66

\* the n-th byte on the line (n from 0): neighbours differ, none is 0
CharOf(n) == 1 + (n % 250)

\* CircularBuffer_t rx_buffer = {.head = 0, .tail = 0};
RxBufferInit ==
    [buffer |-> [i \in 0..(RX_BUFFER_SIZE - 1) |-> 0], head |-> 0, tail |-> 0]

\* The console's main has not reached its loop.
ConsoleIdle == [pc |-> "off", c |-> 0]

\* buf->head == buf->tail
Buffer_IsEmpty(buf) == buf.head = buf.tail

\* Variant: the successor of head is not wrapped.
Buffer_IsFull_NoWrap(buf) == (buf.head + 1) = buf.tail

\* ((buf->head + 1) % RX_BUFFER_SIZE) == buf->tail
Buffer_IsFull(buf) == ((buf.head + 1) % RX_BUFFER_SIZE) = buf.tail

\* Buffer_Put(buf, c)
Buffer_Put(buf, c) ==
    IF ~Buffer_IsFull(buf)
    THEN [buf EXCEPT !.buffer[buf.head] = c,
                     !.head = (buf.head + 1) % RX_BUFFER_SIZE]
    ELSE buf

\* Buffer_Get(buf) as a function: the buffer it leaves and the character it
\* returns
Buffer_Get(buf) ==
    IF Buffer_IsEmpty(buf)
    THEN [buf |-> buf, c |-> 0]
    ELSE [buf |-> [buf EXCEPT !.tail = (buf.tail + 1) % RX_BUFFER_SIZE],
          c |-> buf.buffer[buf.tail]]

\* char c = Buffer_Get(&rx_buffer); with no interrupt taken inside the call
BufferGetCall ==
    /\ console.pc # "off"
    /\ \E r \in {Buffer_Get(rx_buffer)} :
           /\ rx_buffer' = r.buf
           /\ console' = [console EXCEPT !.c = r.c]
    /\ UNCHANGED <<received, consumed>>

\* USART3_IRQHandler with RXNE set: the byte is read from RDR and stored by
\* Buffer_Put (then echoed). The handler runs to completion between two
\* instructions of the main loop, wherever the main loop is.
USART3_IRQHandler ==
    /\ console.pc # "off"
    /\ Len(received) < MaxRxBytes
    /\ \E c \in {CharOf(Len(received))} :
           /\ received' = Append(received, c)
           /\ rx_buffer' = Buffer_Put(rx_buffer, c)
    /\ UNCHANGED <<console, consumed>>

\* while (!Buffer_IsEmpty(&rx_buffer)): head is read once; tail is written
\* by the main loop only.
ConsoleLoopTest ==
    /\ console.pc = "while"
    /\ ~Buffer_IsEmpty(rx_buffer)
    /\ console' = [console EXCEPT !.pc = "Buffer_Get"]
    /\ UNCHANGED <<rx_buffer, received, consumed>>

\* Buffer_Get: if (Buffer_IsEmpty(buf)) return 0;
ConsoleGetTest ==
    /\ console.pc = "Buffer_Get"
    /\ console' = IF Buffer_IsEmpty(rx_buffer)
                  THEN [console EXCEPT !.pc = "ProcessCommand", !.c = 0]
                  ELSE [console EXCEPT !.pc = "get_read"]
    /\ consumed' = IF Buffer_IsEmpty(rx_buffer) THEN Append(consumed, 0)
                   ELSE consumed
    /\ UNCHANGED <<rx_buffer, received>>

\* char c = buf->buffer[buf->tail];
ConsoleGetRead ==
    /\ console.pc = "get_read"
    /\ console' = [console EXCEPT !.pc = "get_advance",
                                  !.c = rx_buffer.buffer[rx_buffer.tail]]
    /\ UNCHANGED <<rx_buffer, received, consumed>>

\* buf->tail = (buf->tail + 1) % RX_BUFFER_SIZE; return c;
ConsoleGetAdvance ==
    /\ console.pc = "get_advance"
    /\ rx_buffer' = [rx_buffer EXCEPT
                        !.tail = (rx_buffer.tail + 1) % RX_BUFFER_SIZE]
    /\ consumed' = Append(consumed, console.c)
    /\ console' = [console EXCEPT !.pc = "ProcessCommand"]
    /\ UNCHANGED received

\* ProcessCommand(c); UART_SendString("> "); and back to the loop test
ConsoleProcess ==
    /\ console.pc = "ProcessCommand"
    /\ console' = [console EXCEPT !.pc = "while"]
    /\ UNCHANGED <<rx_buffer, received, consumed>>

(* ---------- LED metronome: the tempo kept in flash sector 7 ----------- *)

\* button presses and power cycles in a run
MaxTempoPresses == 3
MaxPowerCycles == 2

TEMPO_ANDANTE == 0
TEMPO_COUNT == 4

\* #define SETTINGS_MAGIC 0xDEADBEEF
SETTINGS_MAGIC == BitOr(Shl(ToWord(57005), 16), ToWord(48879))

\* The first 32 bytes of the settings sector after an erase: all ones.
ErasedSettings == [magic |-> WordBits, tempo_index |-> WordBits, padding |-> 255]

\* Settings_t settings as SaveSettings fills it
SettingsOf(tempo) ==
    [magic |-> SETTINGS_MAGIC, tempo_index |-> ToWord(tempo), padding |-> 0]

\* Tempo_t LoadSettings(void); stored->tempo_index < TEMPO_COUNT holds when
\* no bit above bit 1 is set
LoadSettings(stored) ==
    IF stored.magic = SETTINGS_MAGIC
    THEN IF stored.tempo_index \cap (2..31) = {}
         THEN ToInt(stored.tempo_index)
         ELSE TEMPO_ANDANTE
    ELSE TEMPO_ANDANTE

\* The metronome before power is applied: flash as erased, the globals as
\* initialised. saved is the argument of the most recent SaveSettings call
\* (-1: never called), cycles and presses count power cycles and presses.
MetronomeIdle ==
    [flash |-> ErasedSettings, current_tempo |-> TEMPO_ANDANTE,
     button_pressed |-> 0, pc |-> "off", saved |-> -1, cycles |-> 0,
     presses |-> 0]

\* void EXTI15_10_IRQHandler(void) of the metronome: button_pressed = 1
MetronomeButton ==
    /\ metronome.pc \notin {"off", "LoadSettings"}
    /\ metronome.presses < MaxTempoPresses
    /\ metronome' = [metronome EXCEPT !.button_pressed = 1,
                                      !.presses = @ + 1]

\* main of the metronome, from one flash access or shared variable access
\* to the next: current_tempo = LoadSettings() at startup, then the loop; a
\* press steps the tempo and saves it: SaveSettings is called, fills
\* settings and erases the sector, then programs the 32 bytes. The beat
\* branch of the loop touches the LEDs only.
MetronomeMain ==
    \/ /\ metronome.pc = "LoadSettings"
       /\ metronome' = [metronome EXCEPT
              !.current_tempo = LoadSettings(metronome.flash),
              !.pc = "loop"]
    \/ /\ metronome.pc = "loop"
       /\ metronome.button_pressed # 0
       /\ metronome' = [metronome EXCEPT !.button_pressed = 0,
                                         !.pc = "next_tempo"]
    \/ /\ metronome.pc = "next_tempo"
       /\ metronome' = [metronome EXCEPT
              !.current_tempo = (@ + 1) % TEMPO_COUNT,
              !.pc = "SaveSettings"]
    \/ /\ metronome.pc = "SaveSettings"
       /\ metronome' = [metronome EXCEPT !.saved = metronome.current_tempo,
                                         !.flash = ErasedSettings,
                                         !.pc = "Flash_Program256Bits"]
    \/ /\ metronome.pc = "Flash_Program256Bits"
       /\ metronome' = [metronome EXCEPT !.flash = SettingsOf(metronome.saved),
                                         !.pc = "loop"]

\* Power is removed and applied again: the globals are initialised anew,
\* main starts over, the flash keeps what it holds.
PowerCycle ==
    /\ metronome.pc # "off"
    /\ metronome.cycles < MaxPowerCycles
    /\ metronome' = [metronome EXCEPT !.current_tempo = TEMPO_ANDANTE,
                                      !.button_pressed = 0,
                                      !.pc = "LoadSettings",
                                      !.cycles = @ + 1]

(* ------------- digital clock: the long press and the alarm ------------ *)

\* every time of day the RTC can show
Hours == 0 .. 23
Minutes == 0 .. 59
Seconds == 0 .. 59

\* how long the button was held, in milliseconds: a short and a long press
HoldTimes == {500, 2000}

DecToBcd(val) == (((val \div 10) * 16) + (val % 10)) % 256

BcdToDec(val) == (((val \div 16) * 10) + (val % 16)) % 256

\* RTC->TR as the RTC shows the time of day: three BCD fields.
RTC_TR(time) ==
    DecToBcd(time.hours) * 65536 + DecToBcd(time.minutes) * 256
        + DecToBcd(time.seconds)

GetTime(tr) ==
    [hours |-> BcdToDec((tr \div 65536) % 64),
     minutes |-> BcdToDec((tr \div 256) % 128),
     seconds |-> BcdToDec(tr % 128)]

\* the hour carry dropped
AlarmTime_NoHourCarry(current_time) ==
    LET alarm_sec == (current_time.seconds + 10) % 60
        alarm_min == (current_time.minutes
                        + ((current_time.seconds + 10) \div 60)) % 256
    IN  [hours |-> current_time.hours % 24,
         minutes |-> alarm_min % 60,
         seconds |-> alarm_sec]

\* the three uint8_t values main passes to SetAlarm
AlarmTime(current_time) ==
    LET alarm_sec == (current_time.seconds + 10) % 60
        alarm_min == (current_time.minutes
                        + ((current_time.seconds + 10) \div 60)) % 256
        alarm_hr == (current_time.hours + (alarm_min \div 60)) % 256
    IN  [hours |-> alarm_hr % 24,
         minutes |-> alarm_min % 60,
         seconds |-> alarm_sec]

\* RTC->ALRMAR after SetAlarm: MSK4 (bit 31) and the three BCD fields
SetAlarm(hours, minutes, seconds) ==
    [MSK4 |-> 1,
     time |-> DecToBcd(hours) * 65536 + DecToBcd(minutes) * 256
                  + DecToBcd(seconds)]

NoTime == [hours |-> 0, minutes |-> 0, seconds |-> 0]

ClockIdle ==
    [rtc |-> NoTime, button_pressed |-> 0, held |-> 0,
     button_hold_time |-> 0, current_time |-> NoTime,
     passed |-> NoTime, ALRMAR |-> [MSK4 |-> 0, time |-> 0],
     ALRAE |-> 0, pc |-> "off"]

\* EXTI15_10_IRQHandler of the clock: the press is recorded; how long the
\* button stays down is what main measures at the release.
ClockButton ==
    /\ clock.pc # "off"
    /\ clock.button_pressed = 0
    /\ \E held \in HoldTimes :
           clock' = [clock EXCEPT !.button_pressed = 1, !.held = held]

\* the button handling of main's for (;;)
ClockMain ==
    \/ /\ clock.pc = "loop"
       /\ clock.button_pressed = 1
       /\ clock' = [clock EXCEPT !.button_pressed = 0,
                                 !.button_hold_time = clock.held,
                                 !.pc = IF clock.held >= 2000
                                        THEN "long" ELSE "short"]
    \/ /\ clock.pc = "long"
       /\ clock' = [clock EXCEPT !.current_time = GetTime(RTC_TR(clock.rtc)),
                                 !.pc = "SetAlarm"]
    \/ /\ clock.pc = "SetAlarm"
       /\ LET alarm == AlarmTime(clock.current_time)
          IN  clock' = [clock EXCEPT
                           !.passed = alarm,
                           !.ALRMAR = SetAlarm(alarm.hours, alarm.minutes,
                                               alarm.seconds),
                           !.ALRAE = 1,
                           !.pc = "loop"]
    \/ /\ clock.pc = "short"
       /\ clock' = [clock EXCEPT !.current_time = GetTime(RTC_TR(clock.rtc)),
                                 !.pc = "loop"]

(* ------------- reaction game: the interrupt and the main loop --------- *)

\* button presses in a run
MaxPresses == 3

\* TIM2->CNT - start_time at a press, in microseconds: the timer is free
\* running, the difference can be anything
ReactionTimes == {150000, 300000, 500000}

\* The game's globals as initialised (game_state = STATE_WAITING, the others
\* 0), the green LED, and main before it runs. pressed counts the button
\* interrupts; lit tells that LED_GreenOn was called in the current round,
\* early that the button was pressed in the round before that, shown the
\* last pattern displayed.
GameIdle ==
    [game_state |-> "STATE_WAITING", reaction_time |-> 0, button_pressed |-> 0,
     green |-> FALSE, pc |-> "off", pressed |-> 0, lit |-> FALSE,
     early |-> FALSE, shown |-> "none"]

\* void EXTI15_10_IRQHandler(void), on line 13: the pending bit is cleared,
\* button_pressed = 1, and in STATE_READY the reaction time is captured. The
\* handler runs to completion between two statements of main.
EXTI15_10_IRQHandler ==
    /\ game.pc # "off"
    /\ game.pressed < MaxPresses
    /\ \E t \in ReactionTimes :
          game' = [game EXCEPT
              !.button_pressed = 1,
              !.reaction_time = IF game.game_state = "STATE_READY" THEN t
                                ELSE @,
              !.pressed = @ + 1,
              !.early = @ \/ (~game.lit /\ game.game_state \in
                                  {"STATE_WAITING", "STATE_READY"})]

\* Variant: after the wait the game moves to READY whatever game_state is.
AfterWait_NoTest(game_state) == "STATE_READY"

\* if (game_state == STATE_WAITING) { game_state = STATE_READY; }
AfterWait(game_state) ==
    IF game_state = "STATE_WAITING" THEN "STATE_READY" ELSE game_state

\* reaction_time < 200: ShowExcellent; < 400: ShowGood; else ShowSlow
ShowResult(reaction_time) ==
    IF reaction_time < 200 THEN "ShowExcellent"
    ELSE IF reaction_time < 400 THEN "ShowGood" ELSE "ShowSlow"

\* game_state = STATE_WAITING after a restart press: the next round begins.
NextRound(g) ==
    [g EXCEPT !.game_state = "STATE_WAITING", !.pc = "switch",
              !.lit = FALSE, !.early = FALSE]

\* One statement of the for (;;) of main, from the statement at game.pc to
\* the next access of a variable shared with the handler. The timer test of
\* the wait loop goes either way; the display functions and delay_ms only
\* blink LEDs and pass time.
GameMain ==
    /\ game.pc # "off"
    /\ \/ /\ game.pc = "switch"
          /\ game' = [game EXCEPT !.pc = game.game_state]
       \/ /\ game.pc = "STATE_WAITING"
          /\ game' = [game EXCEPT !.green = FALSE, !.button_pressed = 0,
                                  !.pc = "wait_test"]
       \/ /\ game.pc = "wait_test"
          /\ \E expired \in BOOLEAN :
                game' = [game EXCEPT !.pc = IF expired THEN "wait_after"
                                            ELSE "wait_check"]
       \/ /\ game.pc = "wait_check"
          /\ game' = IF game.button_pressed # 0
                     THEN [game EXCEPT !.game_state = "STATE_CHEATED",
                                       !.pc = "wait_after"]
                     ELSE [game EXCEPT !.pc = "wait_test"]
       \/ /\ game.pc = "wait_after"
          /\ game' = [game EXCEPT !.game_state = AfterWait(@),
                                  !.pc = "switch"]
       \/ /\ game.pc = "STATE_READY"
          /\ game' = [game EXCEPT !.button_pressed = 0, !.pc = "ready_time"]
       \/ /\ game.pc = "ready_time"
          /\ game' = [game EXCEPT !.reaction_time = 0, !.pc = "ready_green"]
       \/ /\ game.pc = "ready_green"
          /\ game' = [game EXCEPT !.green = TRUE, !.lit = TRUE,
                                  !.pc = "ready_wait"]
       \/ /\ game.pc = "ready_wait"
          /\ game.button_pressed # 0
          /\ game' = [game EXCEPT !.green = FALSE, !.pc = "ready_done"]
       \/ /\ game.pc = "ready_done"
          /\ game' = [game EXCEPT !.game_state = "STATE_RESULT",
                                  !.pc = "switch"]
       \/ /\ game.pc = "STATE_RESULT"
          /\ game' = [game EXCEPT !.reaction_time = @ \div 1000,
                                  !.pc = "result_show"]
       \/ /\ game.pc = "result_show"
          /\ game' = [game EXCEPT !.shown = ShowResult(game.reaction_time),
                                  !.pc = "restart_clear"]
       \/ /\ game.pc = "STATE_CHEATED"
          /\ game' = [game EXCEPT !.shown = "ShowCheated",
                                  !.pc = "restart_clear"]
       \/ /\ game.pc = "restart_clear"
          /\ game' = [game EXCEPT !.button_pressed = 0,
                                  !.pc = "restart_wait"]
       \/ /\ game.pc = "restart_wait"
          /\ game.button_pressed # 0
          /\ game' = NextRound(game)

(* ----------------- the other programs, before they run ---------------- *)
ProjIdle ==
    /\ game = GameIdle
    /\ metronome = MetronomeIdle
    /\ clock = ClockIdle


\* int main(void) of eth_tutorial.c has not been entered; the PHY on the
\* board is the LAN8742A, out of reset, with no link yet.
BringupIdle ==
    /\ ETH_MAC = MacReset
    /\ ETH_MTL = MtlReset
    /\ phy = PhyChip(LAN8742A)
    /\ mdio = MdioIdle
    /\ initphy = InitPhyIdle
    /\ main = MainIdle

BuildIdle ==
    /\ frame = StaleFrame
    /\ build = NoBuild

UartIdle ==
    /\ rx_buffer = RxBufferInit
    /\ console = ConsoleIdle
    /\ received = << >>
    /\ consumed = << >>

\* The frame I/O engine of eth_tutorial.c alone: main is past the bring-up.
Init ==
    /\ EthInit
    /\ inflight = << >>
    /\ BuildIdle
    /\ BringupIdle
    /\ UartIdle
    /\ ProjIdle

\* A step of the frame I/O engine leaves the other programs alone.
EthOnly == UNCHANGED <<inflight, buildVars, bringupVars, uartVars, projVars>>

(* --------------------------- specifications ---------------------------- *)

Next ==
    \/ ETH_InitDescriptors /\ EthOnly
    \/ \E length \in Lengths :
          ETH_SendFrame(FrameOf(nCalls), length) /\ EthOnly
    \/ \E max_length \in MaxLengths : ETH_ReceiveFrame(max_length) /\ EthOnly
    \/ DmaTxComplete /\ EthOnly
    \/ \E pl \in PacketLengths, es \in BOOLEAN :
          DmaRxDeliver(FrameOf(nDelivered), pl, es) /\ EthOnly

Spec == Init /\ [][Next]_vars

(* ------------- statement by statement, beside a running DMA ------------ *)

\* Entry of ETH_SendFrame: desc is bound and its OWN bit is tested once.
CpuSendEnter(f, length) ==
    /\ ringsReady
    /\ cpu = CpuIdle
    /\ nCalls < caps.calls
    /\ nCalls' = nCalls + 1
    /\ IF TxDescBusy(TxDescriptors[TxDescIdx])
       THEN /\ call' = [op |-> "send", data |-> f, length |-> length,
                        idx |-> TxDescIdx, ret |-> 0]
            /\ cpu' = cpu
       ELSE /\ call' = NoCall
            /\ cpu' = [CpuIdle EXCEPT !.fn = "send", !.at = 1,
                           !.d = TxDescIdx, !.f = f, !.length = length]
    /\ UNCHANGED <<TxDescriptors, RxDescriptors, TxBuffer, RxBuffer,
                   TxDescIdx, RxDescIdx, ETH_DMA, rxframe, ringsReady,
                   dmaTxCur, dmaRxCur, nSent, nDelivered, caps, dma>>

\* Variant: before return 1 ETH_SendFrame waits for the DMA engine to hand
\* the descriptor back (while (desc->DESC3 & ETH_TDES3_OWN);).
CpuSendStmt_WaitsForDma ==
    /\ cpu.fn = "send"
    /\ LET stmt == SendOrder[cpu.at]
           last == cpu.at = Len(SendOrder)
       IN  /\ last => ~TxDescBusy(TxDescriptors[cpu.d])
           /\ \E m \in {SendStmt(stmt, Mem, cpu.d, cpu.f, cpu.length)} :
                  Store(m)
           /\ cpu' = IF last THEN CpuIdle
                     ELSE [cpu EXCEPT !.at = @ + 1, !.done = @ \cup {stmt}]
           /\ call' = IF last
                      THEN [op |-> "send", data |-> cpu.f,
                            length |-> cpu.length, idx |-> cpu.d, ret |-> 1]
                      ELSE NoCall
           /\ nSent' = IF last THEN nSent + 1 ELSE nSent
    /\ UNCHANGED <<ringsReady, dmaTxCur, dmaRxCur, nCalls, nDelivered, caps,
                   dma>>

\* The next statement of ETH_SendFrame; the last one is followed by return 1.
CpuSendStmt ==
    /\ cpu.fn = "send"
    /\ LET stmt == SendOrder[cpu.at]
           last == cpu.at = Len(SendOrder)
       IN  /\ \E m \in {SendStmt(stmt, Mem, cpu.d, cpu.f, cpu.length)} :
                  Store(m)
           /\ cpu' = IF last THEN CpuIdle
                     ELSE [cpu EXCEPT !.at = @ + 1, !.done = @ \cup {stmt}]
           /\ call' = IF last
                      THEN [op |-> "send", data |-> cpu.f,
                            length |-> cpu.length, idx |-> cpu.d, ret |-> 1]
                      ELSE NoCall
           /\ nSent' = IF last THEN nSent + 1 ELSE nSent
    /\ UNCHANGED <<ringsReady, dmaTxCur, dmaRxCur, nCalls, nDelivered, caps,
                   dma>>

\* Entry of ETH_ReceiveFrame: desc is bound and its OWN bit is tested once.
CpuRecvEnter(max_length) ==
    /\ ringsReady
    /\ cpu = CpuIdle
    /\ IF RxDescBusy(RxDescriptors[RxDescIdx])
       THEN /\ call' = [op |-> "recv", data |-> 0, length |-> max_length,
                        idx |-> RxDescIdx, ret |-> 0]
            /\ cpu' = cpu
       ELSE /\ call' = NoCall
            /\ cpu' = [CpuIdle EXCEPT !.fn = "recv", !.at = 0,
                           !.d = RxDescIdx, !.max = max_length]
    /\ UNCHANGED <<TxDescriptors, RxDescriptors, TxBuffer, RxBuffer,
                   TxDescIdx, RxDescIdx, ETH_DMA, rxframe, ringsReady,
                   dmaTxCur, dmaRxCur, nCalls, nSent, nDelivered, caps, dma>>

\* if (desc->DESC3 & ETH_RDES3_ES): the branch is chosen; on the delivery
\* path DESC3 is then read again for the length.
CpuRecvBranch ==
    /\ cpu.fn = "recv"
    /\ cpu.at = 0
    /\ cpu.path \in {"", "ok?"}
    /\ cpu' = IF cpu.path = ""
              THEN IF RxDescError(RxDescriptors[cpu.d])
                   THEN [cpu EXCEPT !.path = "error", !.at = 1]
                   ELSE [cpu EXCEPT !.path = "ok?"]
              ELSE [cpu EXCEPT !.path = "ok", !.at = 1,
                       !.length = RxLength(RxDescriptors[cpu.d], cpu.max)]
    /\ call' = NoCall
    /\ UNCHANGED <<TxDescriptors, RxDescriptors, TxBuffer, RxBuffer,
                   TxDescIdx, RxDescIdx, ETH_DMA, rxframe, ringsReady,
                   dmaTxCur, dmaRxCur, nCalls, nSent, nDelivered, caps, dma>>

\* The statements of the branch ETH_ReceiveFrame is in.
CpuRecvOrder == IF cpu.path = "error" THEN RecvErrorOrder ELSE RecvOrder

\* The next statement of ETH_ReceiveFrame; the last one is followed by the
\* return (0 on the error branch, length otherwise).
CpuRecvStmt ==
    /\ cpu.fn = "recv"
    /\ cpu.at >= 1
    /\ LET stmt == CpuRecvOrder[cpu.at]
           last == cpu.at = Len(CpuRecvOrder)
       IN  /\ \E m \in {RecvStmt(stmt, Mem, cpu.d, cpu.length)} : Store(m)
           /\ cpu' = IF last THEN CpuIdle
                     ELSE [cpu EXCEPT !.at = @ + 1, !.done = @ \cup {stmt}]
           /\ call' = IF last
                      THEN [op |-> "recv", data |-> 0, length |-> cpu.max,
                            idx |-> cpu.d, ret |-> cpu.length]
                      ELSE NoCall
    /\ UNCHANGED <<ringsReady, dmaTxCur, dmaRxCur, nCalls, nSent, nDelivered,
                   caps, dma>>

\* The TX channel fetches the descriptor at its pointer, finds OWN set and
\* starts reading the slot's buffer.
DmaTxBegin ==
    /\ ringsReady
    /\ caps.drain
    /\ dma.tx = "idle"
    /\ DmaOwns(TxDescriptors[dmaTxCur])
    /\ dma' = [dma EXCEPT !.tx = "reading"]
    /\ UNCHANGED <<TxDescriptors, RxDescriptors, TxBuffer, RxBuffer,
                   TxDescIdx, RxDescIdx, ETH_DMA, rxframe, ringsReady,
                   dmaTxCur, dmaRxCur, call, nCalls, nSent, nDelivered, caps,
                   cpu>>

\* The TX channel has sent the buffer: it clears OWN and moves on.
DmaTxEnd ==
    /\ dma.tx = "reading"
    /\ TxDescriptors' = [TxDescriptors EXCEPT
                            ![dmaTxCur].DESC3 = @ \ ETH_TDES3_OWN]
    /\ dmaTxCur' = DmaNext(dmaTxCur, ETH_TX_DESC_CNT)
    /\ dma' = [dma EXCEPT !.tx = "idle"]
    /\ UNCHANGED <<RxDescriptors, TxBuffer, RxBuffer, TxDescIdx, RxDescIdx,
                   ETH_DMA, rxframe, ringsReady, dmaRxCur, call, nCalls,
                   nSent, nDelivered, caps, cpu>>

\* The RX channel fetches the descriptor at its pointer, finds OWN set and
\* stores an arriving frame in the slot's buffer.
DmaRxBegin(f, pl, es) ==
    /\ ringsReady
    /\ nDelivered < caps.deliveries
    /\ dma.rx = "idle"
    /\ DmaOwns(RxDescriptors[dmaRxCur])
    /\ RxBuffer' = MemcpyToSlot(RxBuffer, ETH_RX_BUF_SIZE, dmaRxCur, f, pl)
    /\ dma' = [dma EXCEPT !.rx = "writing", !.pl = pl, !.es = es]
    /\ nDelivered' = nDelivered + 1
    /\ UNCHANGED <<TxDescriptors, RxDescriptors, TxBuffer, TxDescIdx,
                   RxDescIdx, ETH_DMA, rxframe, ringsReady, dmaTxCur,
                   dmaRxCur, call, nCalls, nSent, caps, cpu>>

\* The RX channel has stored the frame: it writes the status back, which
\* clears OWN, and moves on.
DmaRxEnd ==
    /\ dma.rx = "writing"
    /\ RxDescriptors' = [RxDescriptors EXCEPT
                            ![dmaRxCur].DESC0 = {},
                            ![dmaRxCur].DESC3 = RxWriteBackWord(dma.pl, dma.es)]
    /\ dmaRxCur' = DmaNext(dmaRxCur, ETH_RX_DESC_CNT)
    /\ dma' = [dma EXCEPT !.rx = "idle", !.pl = 0, !.es = FALSE]
    /\ UNCHANGED <<TxDescriptors, TxBuffer, RxBuffer, TxDescIdx, RxDescIdx,
                   ETH_DMA, rxframe, ringsReady, dmaTxCur, call, nCalls,
                   nSent, nDelivered, caps, cpu>>

\* Arguments and packet lengths of the statement-level runs: what is
\* interleaved there is the order of accesses, whatever the bytes are.
StepLengths == {64, ETH_TX_BUF_SIZE}
StepPacketLengths == {ETH_RX_BUF_SIZE}
StepMaxLengths == {1518}

\* A run that uses both rings, the software and the two DMA channels
\* interleaved statement by statement.
InitSteps ==
    /\ Init
    /\ caps = [calls |-> MixCalls, deliveries |-> MixDeliveries,
               drain |-> TRUE]

NextSteps ==
    \/ ETH_InitDescriptors /\ EthOnly
    \/ \E length \in StepLengths :
          CpuSendEnter(FrameOf(nCalls), length) /\ EthOnly
    \/ CpuSendStmt /\ EthOnly
    \/ \E max_length \in StepMaxLengths : CpuRecvEnter(max_length) /\ EthOnly
    \/ CpuRecvBranch /\ EthOnly
    \/ CpuRecvStmt /\ EthOnly
    \/ DmaTxBegin /\ EthOnly
    \/ DmaTxEnd /\ EthOnly
    \/ \E pl \in StepPacketLengths, es \in BOOLEAN :
          DmaRxBegin(FrameOf(nDelivered), pl, es) /\ EthOnly
    \/ DmaRxEnd /\ EthOnly

SpecSteps == InitSteps /\ [][NextSteps]_vars

\* The processor keeps executing the function it is in; nothing is assumed
\* of the DMA channels, which may stop at any point.
SpecStepsFair ==
    /\ SpecSteps
    /\ WF_vars(CpuSendStmt /\ EthOnly)
    /\ WF_vars(CpuRecvBranch /\ EthOnly)
    /\ WF_vars(CpuRecvStmt /\ EthOnly)

(* --------------------------- loopback link ----------------------------- *)

\* ETH_SendFrame calls explored on a loopback link
LoopCalls == 5

LoopLengths == {64, 1518}

\* the slot whose buffer a descriptor's DESC0 points to
TxSlotAt(addr) == CHOOSE j \in TxSlots : TxBufferAddr(j) = addr
RxSlotAt(addr) == CHOOSE j \in RxSlots : RxBufferAddr(j) = addr

\* With the link looped back, the DMA engine transmits the frame of the
\* descriptor at its TX pointer (frame length in TDES3[14:0], data at TDES0)
\* and receives it unchanged into the buffer of the descriptor at its RX
\* pointer, which it hands over with the packet length set and no error.
DmaLoopback ==
    /\ ringsReady
    /\ DmaOwns(TxDescriptors[dmaTxCur])
    /\ DmaOwns(RxDescriptors[dmaRxCur])
    /\ LET tdes == TxDescriptors[dmaTxCur]
           rdes == RxDescriptors[dmaRxCur]
           fl == ToInt(tdes.DESC3 \cap TDES3_FL_MASK)
           src == TxBuffer[TxSlotAt(tdes.DESC0)]
           dst == RxSlotAt(rdes.DESC0)
       IN  /\ RxBuffer' = [RxBuffer EXCEPT
                              ![dst] = MemcpyFromSlot(@, src, fl)]
           /\ RxDescriptors' = [RxDescriptors EXCEPT
                                   ![dmaRxCur].DESC0 = {},
                                   ![dmaRxCur].DESC3 = RxWriteBackWord(fl, FALSE)]
    /\ TxDescriptors' = [TxDescriptors EXCEPT
                            ![dmaTxCur].DESC3 = @ \ ETH_TDES3_OWN]
    /\ dmaTxCur' = DmaNext(dmaTxCur, ETH_TX_DESC_CNT)
    /\ dmaRxCur' = DmaNext(dmaRxCur, ETH_RX_DESC_CNT)
    /\ nDelivered' = nDelivered + 1
    /\ call' = NoCall
    /\ UNCHANGED <<TxBuffer, TxDescIdx, RxDescIdx, ETH_DMA, rxframe,
                   ringsReady, nCalls, nSent, caps, cpu, dma>>

\* ETH_SendFrame on the loopback link: an accepted frame is on its way.
LoopSend(f, length) ==
    /\ ETH_SendFrame(f, length)
    /\ inflight' = IF call'.ret = 1
                   THEN Append(inflight, [data |-> f, length |-> length])
                   ELSE inflight

\* ETH_ReceiveFrame on the loopback link: a call that consumes a descriptor
\* takes the oldest frame on its way.
LoopReceive(max_length) ==
    /\ ETH_ReceiveFrame(max_length)
    /\ inflight' = IF RxDescIdx' # RxDescIdx /\ inflight # << >>
                   THEN Tail(inflight) ELSE inflight

InitLoop ==
    /\ EthReset
    /\ caps = [calls |-> LoopCalls, deliveries |-> LoopCalls, drain |-> TRUE]
    /\ inflight = << >>
    /\ BuildIdle
    /\ BringupIdle
    /\ UartIdle
    /\ ProjIdle

LoopOnly == UNCHANGED <<buildVars, bringupVars, uartVars, projVars>>

NextLoop ==
    \/ ETH_InitDescriptors /\ EthOnly
    \/ \E length \in LoopLengths :
          LoopSend(FrameOf(nCalls), length) /\ LoopOnly
    \/ \E max_length \in MaxLengths : LoopReceive(max_length) /\ LoopOnly
    \/ DmaLoopback /\ EthOnly

SpecLoop == InitLoop /\ [][NextLoop]_vars

(* ------------------- rings set up more than once ----------------------- *)

\* ETH_SendFrame calls between two set-ups, and frames delivered in a run
AgainCalls == 2
AgainDeliveries == 2

InitAgain ==
    /\ EthReset
    /\ caps = [calls |-> AgainCalls, deliveries |-> AgainDeliveries,
               drain |-> TRUE]
    /\ inflight = << >>
    /\ BuildIdle
    /\ BringupIdle
    /\ UartIdle
    /\ ProjIdle

NextAgain ==
    \/ ETH_InitDescriptors /\ EthOnly
    \/ ETH_InitDescriptorsAgain /\ EthOnly
    \/ \E length \in StepLengths :
          ETH_SendFrame(FrameOf(nCalls), length) /\ EthOnly
    \/ \E max_length \in StepMaxLengths :
          ETH_ReceiveFrame(max_length) /\ EthOnly
    \/ DmaTxComplete /\ EthOnly
    \/ \E pl \in StepPacketLengths, es \in BOOLEAN :
          DmaRxDeliver(FrameOf(nDelivered), pl, es) /\ EthOnly

SpecAgain == InitAgain /\ [][NextAgain]_vars

(* ---------------------- frames built one by one ------------------------ *)

\* The frame I/O engine, with its rings not yet set up.
EthIdle ==
    /\ EthReset
    /\ caps = [calls |-> MixCalls, deliveries |-> MixDeliveries,
               drain |-> TRUE]
    /\ inflight = << >>

InitBuild ==
    /\ EthIdle
    /\ BuildIdle
    /\ BringupIdle
    /\ UartIdle
    /\ ProjIdle

\* BuildEthernetFrame called time after time on the same frame array;
\* payloads of different lengths carry different contents.
NextBuild ==
    \E hdr \in Headers, payload_len \in PayloadLens :
        /\ BuildEthernetFrame(hdr.dest_mac, hdr.ethertype,
                              FrameOf(payload_len), payload_len)
        /\ UNCHANGED <<ethVars, inflight, bringupVars, uartVars, projVars>>

SpecBuild == InitBuild /\ [][NextBuild]_vars

(* ------------------- main, from reset to the main loop ----------------- *)

\* main is entered after reset, on a board that carries one of the PHY
\* chips, or none that answers.
InitMain ==
    /\ EthIdle
    /\ BuildIdle
    /\ UartIdle
    /\ ProjIdle
    /\ ETH_MAC = MacReset
    /\ ETH_MTL = MtlReset
    /\ phy \in {PhyChip(kind) : kind \in PhyKinds} \cup {PhyAbsent}
    /\ mdio = MdioIdle
    /\ initphy = InitPhyIdle
    /\ main = [MainIdle EXCEPT !.pc = "ETH_EnableClocks"]

\* what a step of the bring-up, of the frame engine, of main leaves alone
BringupOnly == UNCHANGED <<ethVars, inflight, buildVars, uartVars, projVars>>
MainOnly == UNCHANGED <<inflight, buildVars, uartVars, projVars>>

\* the steps of ETH_InitPHY and of the MDIO functions it calls
InitPhySoftware ==
    \/ InitPhyEnter /\ BringupOnly
    \/ InitPhyStep /\ BringupOnly
    \/ MdioWait /\ BringupOnly
    \/ MdioStart /\ BringupOnly

\* the hardware beside them: the MAC's MDIO master and the PHY chip
InitPhyHardware ==
    \/ MdioComplete /\ BringupOnly
    \/ PhyResetDone /\ BringupOnly
    \/ PhyLinkChange /\ BringupOnly

NextMain ==
    \/ MainSetup /\ MainOnly
    \/ MainDMAReset /\ MainOnly
    \/ MainDMAResetWait /\ MainOnly
    \/ DmaResetDone /\ MainOnly
    \/ InitPhySoftware
    \/ InitPhyHardware
    \/ MainCheckPHY /\ MainOnly
    \/ MainHalt /\ MainOnly
    \/ MainSetMACAddress /\ MainOnly
    \/ MainInitDescriptors /\ MainOnly
    \/ MainStartMAC /\ MainOnly
    \/ MainBuild /\ UNCHANGED <<inflight, uartVars, projVars>>
    \/ MainSend /\ MainOnly
    \/ MainDelay /\ MainOnly
    \/ MainReceive /\ MainOnly
    \/ DmaStarted /\ DmaTxComplete /\ UNCHANGED bringupVars /\ MainOnly
    \/ \E pl \in StepPacketLengths, es \in BOOLEAN :
          /\ DmaStarted
          /\ DmaRxDeliver(FrameOf(nDelivered), pl, es)
          /\ UNCHANGED bringupVars
          /\ MainOnly

SpecMain == InitMain /\ [][NextMain]_vars

\* The processor keeps executing ETH_InitPHY, and the MAC completes every
\* MDIO transaction it was given; nothing is assumed of the PHY chip.
SpecMainFair ==
    /\ SpecMain
    /\ WF_vars(InitPhySoftware)
    /\ WF_vars(MdioComplete /\ BringupOnly)

\* the statements of main up to the test of ETH_InitPHY's return value
MainBringupSoftware ==
    \/ MainSetup /\ MainOnly
    \/ MainDMAReset /\ MainOnly
    \/ MainDMAResetWait /\ MainOnly
    \/ MainCheckPHY /\ MainOnly

\* The processor keeps executing main and the functions it calls; nothing is
\* assumed of the hardware: the DMA engine may never finish its reset, the
\* MAC may never complete an MDIO transaction.
SpecMainSoftwareFair ==
    /\ SpecMain
    /\ WF_vars(MainBringupSoftware)
    /\ WF_vars(InitPhySoftware)

\* The same with hardware that finishes what it was given.
SpecMainHardwareFair ==
    /\ SpecMainSoftwareFair
    /\ WF_vars(DmaResetDone /\ MainOnly)
    /\ WF_vars(MdioComplete /\ BringupOnly)

(* ------------- UART console: the interrupt and the main loop ---------- *)

\* The console's main has reached for (;;) with interrupts enabled; nothing
\* was received yet.
InitUart ==
    /\ EthIdle
    /\ BuildIdle
    /\ BringupIdle
    /\ ProjIdle
    /\ rx_buffer = RxBufferInit
    /\ console = [ConsoleIdle EXCEPT !.pc = "while"]
    /\ received = << >>
    /\ consumed = << >>

UartOnly == UNCHANGED <<ethVars, inflight, buildVars, bringupVars, projVars>>

\* The receive interrupt is taken between any two steps of the main loop.
NextUart ==
    \/ USART3_IRQHandler /\ UartOnly
    \/ ConsoleLoopTest /\ UartOnly
    \/ ConsoleGetTest /\ UartOnly
    \/ ConsoleGetRead /\ UartOnly
    \/ ConsoleGetAdvance /\ UartOnly
    \/ ConsoleProcess /\ UartOnly

SpecUart == InitUart /\ [][NextUart]_vars

\* Buffer_Put and Buffer_Get called in any order, each running to its end.
NextBuffer ==
    \/ USART3_IRQHandler /\ UartOnly
    \/ BufferGetCall /\ UartOnly

SpecBuffer == InitUart /\ [][NextBuffer]_vars

(* ---------------- the reaction game, played round by round ------------ *)

\* main has initialised the peripherals and enters for (;;) with the button
\* interrupt enabled.
InitGame ==
    /\ EthIdle
    /\ BuildIdle
    /\ BringupIdle
    /\ UartIdle
    /\ game = [GameIdle EXCEPT !.pc = "switch"]
    /\ metronome = MetronomeIdle
    /\ clock = ClockIdle

GameOnly ==
    UNCHANGED <<ethVars, inflight, buildVars, bringupVars, uartVars,
                metronome, clock>>

NextGame ==
    \/ EXTI15_10_IRQHandler /\ GameOnly
    \/ GameMain /\ GameOnly

SpecGame == InitGame /\ [][NextGame]_vars

(* --------------- the metronome across its power cycles --------------- *)

\* Power is applied for the first time, the settings sector erased.
InitMetronome ==
    /\ EthIdle
    /\ BuildIdle
    /\ BringupIdle
    /\ UartIdle
    /\ game = GameIdle
    /\ metronome = [MetronomeIdle EXCEPT !.pc = "LoadSettings"]
    /\ clock = ClockIdle

MetronomeOnly ==
    UNCHANGED <<ethVars, inflight, buildVars, bringupVars, uartVars, game,
                clock>>

NextMetronome ==
    \/ MetronomeButton /\ MetronomeOnly
    \/ MetronomeMain /\ MetronomeOnly
    \/ PowerCycle /\ MetronomeOnly

SpecMetronome == InitMetronome /\ [][NextMetronome]_vars

(* ------------------ the clock at every time of day ------------------- *)

\* main is in for (;;) and the RTC shows any time of day.
InitClock ==
    /\ EthIdle
    /\ BuildIdle
    /\ BringupIdle
    /\ UartIdle
    /\ game = GameIdle
    /\ metronome = MetronomeIdle
    /\ \E h \in Hours, m \in Minutes, s \in Seconds :
           clock = [ClockIdle EXCEPT
                       !.rtc = [hours |-> h, minutes |-> m, seconds |-> s],
                       !.pc = "loop"]

ClockOnly ==
    UNCHANGED <<ethVars, inflight, buildVars, bringupVars, uartVars, game,
                metronome>>

NextClock ==
    \/ ClockButton /\ ClockOnly
    \/ ClockMain /\ ClockOnly

SpecClock == InitClock /\ [][NextClock]_vars

(* ------------------ lengths beyond the slot buffer -------------------- *)

\* ETH_SendFrame calls in a run with long frames
WideCalls == 5

\* uint16_t length arguments up to the largest: the slot size, one byte
\* more, a frame that reaches into the next slot, and 0xFFFF
WideLengths == {ETH_TX_BUF_SIZE, ETH_TX_BUF_SIZE + 1, 1600, 65535}

InitSendWide ==
    /\ EthReset
    /\ caps = [calls |-> WideCalls, deliveries |-> 0, drain |-> TRUE]
    /\ inflight = << >>
    /\ BuildIdle
    /\ BringupIdle
    /\ UartIdle
    /\ ProjIdle

NextSendWide ==
    \/ ETH_InitDescriptors /\ EthOnly
    \/ \E length \in WideLengths :
          ETH_SendFrame(FrameOf(nCalls), length) /\ EthOnly
    \/ DmaTxComplete /\ EthOnly

SpecSendWide == InitSendWide /\ [][NextSendWide]_vars

\* frames delivered in a run with long packet lengths
WideDeliveries == 4

\* values of the 15-bit packet-length field: a short frame, the slot size,
\* more than the slot size, and 0x7FFF
WidePacketLengths == {64, ETH_RX_BUF_SIZE, 1600, 32767}

\* uint16_t max_length arguments: main's 1518, the slot size, and two that
\* exceed it
WideMaxLengths == {1518, ETH_RX_BUF_SIZE, 1600, 65535}

InitRecvWide ==
    /\ EthReset
    /\ caps = [calls |-> 0, deliveries |-> WideDeliveries, drain |-> TRUE]
    /\ inflight = << >>
    /\ BuildIdle
    /\ BringupIdle
    /\ UartIdle
    /\ ProjIdle

NextRecvWide ==
    \/ ETH_InitDescriptors /\ EthOnly
    \/ \E max_length \in WideMaxLengths :
          ETH_ReceiveFrame(max_length) /\ EthOnly
    \/ \E pl \in WidePacketLengths :
          DmaRxDeliverLong(FrameOf(nDelivered), pl) /\ EthOnly

SpecRecvWide == InitRecvWide /\ [][NextRecvWide]_vars

(* ----------------- payloads of every 16-bit length -------------------- *)

\* uint16_t payload_len arguments: the short ones, a full-size payload, and
\* the largest ones
WidePayloadLens == PayloadLens \cup {1500} \cup 65520..65535

NextBuildWide ==
    \E hdr \in Headers, payload_len \in WidePayloadLens :
        /\ BuildEthernetFrame(hdr.dest_mac, hdr.ethertype,
                              FrameOf(payload_len), payload_len)
        /\ UNCHANGED <<ethVars, inflight, bringupVars, uartVars, projVars>>

SpecBuildWide == InitBuild /\ [][NextBuildWide]_vars

(* ------------------------------ properties ----------------------------- *)

SendReturned == call'.op = "send"
RecvReturned == call'.op = "recv"

\* C1: ETH_SendFrame returns 0 exactly when the descriptor at TxDescIdx has
\* OWN set when it is called, and a call that returns 0 leaves every TX
\* descriptor, every TxBuffer byte, TxDescIdx and DMACTDTPR as they were.
C1_BusyIffOwnAndNothingChanged ==
    [][SendReturned =>
        /\ call'.ret \in {0, 1}
        /\ (call'.ret = 0) <=> (31 \in TxDescriptors[TxDescIdx].DESC3)
        /\ call'.ret = 0 =>
            /\ TxDescriptors' = TxDescriptors
            /\ TxBuffer' = TxBuffer
            /\ TxDescIdx' = TxDescIdx
            /\ ETH_DMA'.DMACTDTPR = ETH_DMA.DMACTDTPR]_vars

\* a busy call on a slot whose buffer holds an earlier frame
C1_Witness ==
    /\ call.op = "send"
    /\ call.ret = 0
    /\ call.length = 64
    /\ 31 \in TxDescriptors[TxDescIdx].DESC3
    /\ TxBuffer[TxDescIdx][0] # 0

\* C2: from the state left by ETH_InitDescriptors, while the DMA engine
\* clears no OWN bit, exactly the first 4 ETH_SendFrame calls return 1, using
\* slots 0, 1, 2, 3 in that order, and the 5th and every later call return 0.
C2_FirstFourSucceedThenBusy ==
    (ringsReady /\ ~caps.drain /\ call.op = "send") =>
        /\ call.ret \in {0, 1}
        /\ (call.ret = 1) <=> (nCalls <= 4)
        /\ call.ret = 1 => call.idx = nCalls - 1

\* a 6th call returning busy after four 64-byte frames filled the ring
C2_Witness ==
    /\ ~caps.drain
    /\ nCalls = 6
    /\ call.op = "send"
    /\ call.ret = 0
    /\ call.length = 64
    /\ \A i \in TxSlots : TxDescriptors[i].DESC2 = ToWord(64)

\* C3: a successful ETH_SendFrame(data, length) with length <= 1536 on slot
\* i leaves the first length bytes of TxBuffer[i] equal to data, DESC0 the
\* address of TxBuffer[i], the DESC2 buffer length and the DESC3 frame length
\* equal to length, and OWN, FD, LD and the checksum-insertion bits set.
C3_SuccessfulSendFillsSlot ==
    (call.op = "send" /\ call.ret = 1 /\ call.length <= ETH_TX_BUF_SIZE) =>
        LET i == call.idx
            desc == TxDescriptors[i]
        IN  /\ \A o \in Probes :
                o < call.length => TxBuffer[i][o] = Payload(call.data, o)
            /\ desc.DESC0 = ToWord(TxBufferBase + i * ETH_TX_BUF_SIZE)
            /\ ToInt(desc.DESC2 \cap (0..13)) = call.length
            /\ ToInt(desc.DESC3 \cap TDES3_FL_MASK) = call.length
            /\ {31, 29, 28, 17, 16} \subseteq desc.DESC3

\* a full-size frame sent into a slot that was used before
C3_Witness ==
    /\ call.op = "send"
    /\ call.ret = 1
    /\ call.length = ETH_TX_BUF_SIZE
    /\ nSent = 5
    /\ call.idx = 0

\* The software's next statement is the memcpy into or out of a slot buffer.
CpuAtTxCopy == cpu.fn = "send" /\ SendOrder[cpu.at] = "copy"
CpuAtRxCopy ==
    cpu.fn = "recv" /\ cpu.at >= 1 /\ CpuRecvOrder[cpu.at] = "copy"

C5_CursorAdvancesInOrder ==
    [][/\ (SendReturned /\ call'.ret = 1) =>
            /\ call'.idx = TxDescIdx
            /\ TxDescIdx' = (TxDescIdx + 1) % 4
       /\ (SendReturned /\ call'.ret = 0) => TxDescIdx' = TxDescIdx
       /\ ringsReady' => TxDescIdx' = nSent' % 4]_vars

\* the fifth success, after the ring wrapped through index 0
C5_Witness ==
    /\ call.op = "send"
    /\ call.ret = 1
    /\ nSent = 5
    /\ TxDescIdx = 1

\* C6: after ETH_InitDescriptors and any ETH_SendFrame calls, TxDescIdx is
\* in 0..3 and DMACTDTPR holds the address of TxDescriptors[TxDescIdx].
C6_TxTailFollowsCursor ==
    ringsReady =>
        /\ TxDescIdx \in 0..3
        /\ ETH_DMA.DMACTDTPR = TxDescAddr(TxDescIdx)

\* the tail pointer after a send that wrapped the cursor to 0
C6_Witness ==
    /\ call.op = "send"
    /\ call.ret = 1
    /\ call.idx = 3
    /\ TxDescIdx = 0
    /\ ETH_DMA.DMACTDTPR = ToWord(TxDescriptorsBase)

\* C7: ETH_ReceiveFrame called while the descriptor at RxDescIdx has OWN set
\* returns 0 and leaves RxDescIdx, every RX descriptor, DMACRDTPR and the
\* caller's buffer unchanged.
C7_RxBusyChangesNothing ==
    [][(RecvReturned /\ 31 \in RxDescriptors[RxDescIdx].DESC3) =>
        /\ call'.ret = 0
        /\ RxDescIdx' = RxDescIdx
        /\ RxDescriptors' = RxDescriptors
        /\ ETH_DMA'.DMACRDTPR = ETH_DMA.DMACRDTPR
        /\ rxframe' = rxframe]_vars

\* a poll that found nothing, after earlier frames were received
C7_Witness ==
    /\ call.op = "recv"
    /\ call.ret = 0
    /\ RxDescIdx = call.idx
    /\ 31 \in RxDescriptors[RxDescIdx].DESC3
    /\ rxframe[0] # 0

\* C8: with OWN clear and the error-summary flag set on the descriptor at
\* RxDescIdx = i, ETH_ReceiveFrame returns 0, writes nothing to the caller's
\* buffer, leaves descriptor i re-armed (DESC3 = OWN | IOC | BUF1V, DESC0 the
\* address of RxBuffer[i]) and advances RxDescIdx to (i + 1) mod 4.
C8_ErrorFrameDroppedAndRearmed ==
    [][(/\ RecvReturned
        /\ 31 \notin RxDescriptors[RxDescIdx].DESC3
        /\ 15 \in RxDescriptors[RxDescIdx].DESC3) =>
        LET i == RxDescIdx
        IN  /\ call'.ret = 0
            /\ rxframe' = rxframe
            /\ RxDescriptors'[i].DESC3 = {31, 30, 24}
            /\ RxDescriptors'[i].DESC0 = ToWord(RxBufferBase + i * ETH_RX_BUF_SIZE)
            /\ RxDescIdx' = (i + 1) % 4]_vars

\* an error frame dropped from slot 3, the cursor wrapping to 0
C8_Witness ==
    /\ call.op = "recv"
    /\ call.ret = 0
    /\ call.idx = 3
    /\ RxDescIdx = 0
    /\ RxDescriptors[3].DESC3 = {31, 30, 24}

\* C9: with OWN clear and no error flag on the descriptor at RxDescIdx = i,
\* ETH_ReceiveFrame(buffer, max_length) returns n = min(packet length,
\* max_length), the first n bytes of the caller's buffer equal the first n
\* bytes of RxBuffer[i], descriptor i ends re-armed and RxDescIdx becomes
\* (i + 1) mod 4.
C9_FrameDeliveredAndRearmed ==
    [][(/\ RecvReturned
        /\ 31 \notin RxDescriptors[RxDescIdx].DESC3
        /\ 15 \notin RxDescriptors[RxDescIdx].DESC3) =>
        LET i == RxDescIdx
            pl == ToInt(RxDescriptors[i].DESC3 \cap (0..14))
            n == IF pl < call'.length THEN pl ELSE call'.length
        IN  /\ call'.ret = n
            /\ \A o \in Probes : o < n => rxframe'[o] = RxBuffer[i][o]
            /\ {31, 30, 24} \subseteq RxDescriptors'[i].DESC3
            /\ RxDescriptors'[i].DESC0 = ToWord(RxBufferBase + i * ETH_RX_BUF_SIZE)
            /\ RxDescIdx' = (i + 1) % 4]_vars

\* a 1536-byte frame received into a 1518-byte buffer from a reused slot
C9_Witness ==
    /\ call.op = "recv"
    /\ call.ret = 1518
    /\ call.length = 1518
    /\ call.idx = 0
    /\ nDelivered = 5
    /\ rxframe[1517] = RxBuffer[0][1517]
    /\ rxframe[1517] # 0

\* C10: after every ETH_ReceiveFrame call that re-arms a descriptor and
\* advances RxDescIdx (a delivered frame or a dropped error frame), DMACRDTPR
\* holds the address of RxDescriptors[RxDescIdx].
C10_RxTailFollowsCursor ==
    (call.op = "recv" /\ RxDescIdx = (call.idx + 1) % 4) =>
        ETH_DMA.DMACRDTPR = RxDescAddr(RxDescIdx)

\* C11: on a loopback link, where the DMA engine delivers each transmitted
\* TX slot unchanged into the next DMA-owned RX slot with the packet length
\* set to the sent length, every ETH_ReceiveFrame call that finds a frame
\* finds the oldest frame accepted by ETH_SendFrame and not yet received, and
\* when max_length is at least that frame's length L it returns L and leaves
\* the frame's L bytes in the caller's buffer.
C11_LoopbackRoundTrip ==
    [][(RecvReturned /\ 31 \notin RxDescriptors[RxDescIdx].DESC3) =>
        /\ inflight # << >>
        /\ LET sent == Head(inflight)
           IN  call'.length >= sent.length =>
                 /\ call'.ret = sent.length
                 /\ \A o \in Probes :
                       o < sent.length => rxframe'[o] = Payload(sent.data, o)]_vars

\* the fifth frame sent, 1518 bytes long, received back through slot 0 of
\* both rings after they wrapped
C11_Witness ==
    /\ call.op = "recv"
    /\ call.ret = 1518
    /\ call.idx = 0
    /\ nSent = 5
    /\ nDelivered = 5
    /\ inflight = << >>
    /\ rxframe[1517] = Payload(FrameOf(4), 1517)

\* C12: right after ETH_InitDescriptors, whatever state the rings were in
\* before the call, every TX descriptor has its four words zero, every RX
\* descriptor i has DESC0 = address of RxBuffer[i] and DESC3 = OWN | IOC |
\* BUF1V, and TxDescIdx and RxDescIdx are 0.
C12_InitDescriptorsResetsRings ==
    call.op = "init" =>
        /\ \A i \in TxSlots :
              /\ TxDescriptors[i].DESC0 = {}
              /\ TxDescriptors[i].DESC1 = {}
              /\ TxDescriptors[i].DESC2 = {}
              /\ TxDescriptors[i].DESC3 = {}
        /\ \A i \in RxSlots :
              /\ RxDescriptors[i].DESC0 = ToWord(RxBufferBase + i * ETH_RX_BUF_SIZE)
              /\ RxDescriptors[i].DESC3 = {31, 30, 24}
        /\ TxDescIdx = 0
        /\ RxDescIdx = 0

\* the rings set up again after two frames were sent and two received
C12_Witness ==
    /\ call.op = "init"
    /\ nDelivered = 2
    /\ TxBuffer[1][0] # 0
    /\ RxBuffer[1][0] # 0
    /\ rxframe[0] # 0

\* C13: once ETH_InitDescriptors has run, the TX and RX ring length
\* registers hold 3, one less than the number of descriptors of either array,
\* and the list address registers hold the bases of TxDescriptors and
\* RxDescriptors, in every later state, whatever ETH_SendFrame and
\* ETH_ReceiveFrame calls were made; right after ETH_InitDescriptors the TX
\* tail is the address of TxDescriptors[0] and the RX tail the address of
\* RxDescriptors[3].
C13_RingRegistersMatchArrays ==
    /\ ringsReady =>
         /\ ToInt(ETH_DMA.DMACTDRLR) = 3
         /\ ToInt(ETH_DMA.DMACRDRLR) = 3
         /\ ToInt(ETH_DMA.DMACTDRLR) = Cardinality(DOMAIN TxDescriptors) - 1
         /\ ToInt(ETH_DMA.DMACRDRLR) = Cardinality(DOMAIN RxDescriptors) - 1
         /\ ETH_DMA.DMACTDLAR = ToWord(TxDescriptorsBase)
         /\ ETH_DMA.DMACRDLAR = ToWord(RxDescriptorsBase)
    /\ call.op = "init" =>
         /\ ETH_DMA.DMACTDTPR = ToWord(TxDescriptorsBase)
         /\ ETH_DMA.DMACRDTPR = ToWord(RxDescriptorsBase + 3 * DescSize)

\* the ring registers after two frames were sent and two received
C13_Witness ==
    /\ call.op = "recv"
    /\ call.ret > 0
    /\ nSent = 2
    /\ nDelivered = 2
    /\ RxDescIdx = 2
    /\ ToInt(ETH_DMA.DMACRDRLR) = 3

\* C14: BuildEthernetFrame with payload_len < 46 returns 60, leaves zero in
\* every frame byte from offset 14 + payload_len to offset 59, and leaves the
\* 14 header bytes and the payload_len payload bytes before that region as
\* they were written.
C14_ShortPayloadPaddedTo60 ==
    (build.done /\ build.payload_len < 46) =>
        /\ build.ret = 60
        /\ \A o \in (14 + build.payload_len)..59 : frame[o] = 0
        /\ \A k \in 1..6 :
              /\ frame[k - 1] = build.dest_mac[k]
              /\ frame[k + 5] = build.src_mac[k]
        /\ frame[12] = build.ethertype \div 256
        /\ frame[13] = build.ethertype % 256
        /\ \A k \in 0..(build.payload_len - 1) :
              frame[14 + k] = Payload(build.payload, k)

\* a 45-byte payload, padded by one byte, built over an earlier frame that
\* was longer than 60 bytes
C14_Witness ==
    /\ build.done
    /\ build.payload_len = 45
    /\ frame[58] = Payload(build.payload, 44)
    /\ frame[59] = 0
    /\ frame[60] \notin {0, StaleByte}

\* C15: when the identifier ETH_InitPHY read from PHYID1 and PHYID2 is not
\* (0x0007, 0xC130), ETH_InitPHY has not written the auto-negotiation enable
\* bit, and if it has returned, it returned 0.
C15_MismatchedIdRejected ==
    (initphy.id1 # ToWord(LAN8742A.id1) \/ initphy.id2 # ToWord(LAN8742A.id2))
        => /\ ~initphy.autoneg
           /\ initphy.at = "returned" => initphy.ret = 0

\* C16: with every MDIO transaction completing, ETH_InitPHY, once entered,
\* returns. It returns 0 on the read that uses the reset-poll budget up with
\* the reset bit still set, and 0 on the read that uses the link-poll budget
\* up with the link-up bit still clear, never on an earlier or a later read
\* of a poll; it returns 1 only on a status read that shows the link-up bit.
C16_InitPhyReturns ==
    /\ (initphy.at # "idle") ~> (initphy.at = "returned")
    /\ [][LET returns == initphy.at # "returned" /\ initphy'.at = "returned"
              moved == initphy' # initphy
              inReset == BitAnd(mdio.ret, PHY_BCR_RESET) # {}
              linkUp == BitAnd(mdio.ret, PHY_BSR_LINK_UP) # {}
              resetRead == /\ initphy.at = "reset_poll"
                           /\ mdio.at = 4 /\ mdio.fn = "read"
                           /\ mdio.reg = PHY_BCR
              linkRead == /\ initphy.at = "link_poll"
                          /\ mdio.at = 4 /\ mdio.fn = "read"
                          /\ mdio.reg = PHY_BSR
          IN  /\ (resetRead /\ inReset /\ moved)
                    => (returns <=> initphy.polls = ResetPollBudget)
              /\ (linkRead /\ ~linkUp /\ moved)
                    => (returns <=> initphy.polls = LinkPollBudget)
              /\ (returns /\ initphy.at \in {"reset_poll", "link_poll"}
                     /\ initphy'.ret = 0)
                    => IF initphy.at = "reset_poll" THEN resetRead /\ inReset
                       ELSE linkRead /\ ~linkUp
              /\ (returns /\ initphy'.ret = 1) => linkRead /\ linkUp
              /\ (linkRead /\ linkUp /\ moved) => returns /\ initphy'.ret = 1
       ]_vars

\* ETH_InitPHY has given up on the link after LinkPollBudget status reads.
C16_Witness ==
    /\ initphy.at = "returned"
    /\ initphy.ret = 0
    /\ initphy.autoneg
    /\ initphy.polls = LinkPollBudget

\* C17: in main the rings are set up only after ETH_InitPHY returned 1, the
\* MAC and the DMA channels are started only with the rings set up, and
\* ETH_SendFrame and ETH_ReceiveFrame are called only with the MAC and the
\* DMA channels started. After ETH_InitPHY returned 0 the MAC address
\* registers, the rings, the MAC configuration and the DMA start bits keep
\* their reset values, no frame call is made, main goes to its halt loop and
\* stays there, and a returned ETH_InitPHY is not entered again.
C17_BringupOrder ==
    /\ [](/\ ringsReady => initphy.at = "returned" /\ initphy.ret = 1
          /\ (\/ ETH_MAC.MACCR # {}
              \/ 0 \in ETH_DMA.DMACTCR
              \/ 0 \in ETH_DMA.DMACRCR
              \/ ETH_MTL # MtlReset) => ringsReady
          /\ (nCalls > 0 \/ call.op \in {"send", "recv"})
                => /\ {0, 1} \subseteq ETH_MAC.MACCR
                   /\ 0 \in ETH_DMA.DMACTCR
                   /\ 0 \in ETH_DMA.DMACRCR
          /\ (initphy.at = "returned" /\ initphy.ret = 0)
                => /\ main.pc \in {"ETH_InitPHY", "halt"}
                   /\ ETH_MAC.MACA0LR = {} /\ ETH_MAC.MACA0HR = {}
                   /\ ~ringsReady
                   /\ \A i \in TxSlots : TxDescriptors[i] = ZeroDesc
                   /\ \A i \in RxSlots : RxDescriptors[i] = ZeroDesc
                   /\ ETH_MAC.MACCR = {}
                   /\ 0 \notin ETH_DMA.DMACTCR /\ 0 \notin ETH_DMA.DMACRCR
                   /\ call = NoCall /\ nCalls = 0)
    /\ [][/\ main.pc = "halt" => main'.pc = "halt"
          /\ initphy.at = "returned" => initphy' = initphy
          /\ (main.pc = "ETH_InitPHY" /\ main'.pc # "ETH_InitPHY"
                 /\ initphy.ret = 0) => main'.pc = "halt"
       ]_vars

\* main is in its loop: a frame went out and one was received.
C17_Witness ==
    /\ initphy.ret = 1
    /\ main.pc = "ETH_SendFrame"
    /\ nSent > 0
    /\ call.op = "recv"
    /\ call.ret > 0

\* C18: a call of ETH_SendFrame or ETH_ReceiveFrame that has been entered
\* returns, whatever the DMA channels do or fail to do: in every state inside
\* a call the next statement can be executed, and every statement executed
\* moves the call forward, never back to a statement or test already passed.
C18_FrameCallsNeverWait ==
    /\ (cpu.fn # "idle") ~> (cpu.fn = "idle")
    /\ [](/\ cpu.fn = "send" => ENABLED (CpuSendStmt /\ EthOnly)
          /\ cpu.fn = "recv" =>
                \/ ENABLED (CpuRecvBranch /\ EthOnly)
                \/ ENABLED (CpuRecvStmt /\ EthOnly))
    /\ [][(cpu.fn # "idle" /\ cpu' # cpu)
             => \/ cpu' = CpuIdle
                \/ cpu'.fn = cpu.fn /\ cpu'.at > cpu.at
                \/ /\ cpu'.fn = cpu.fn /\ cpu'.at = 0
                   /\ cpu.path = "" /\ cpu'.path = "ok?"
       ]_vars

\* ETH_SendFrame is at its last statement with the DMA engine's TX channel
\* still reading an earlier slot.
C18_Witness ==
    /\ cpu.fn = "send"
    /\ cpu.at = Len(SendOrder)
    /\ dma.tx = "reading"

\* C19: a call of ETH_SendFrame leaves RxDescIdx, every RX descriptor, every
\* RxBuffer byte, the output array of ETH_ReceiveFrame and the RX channel's
\* registers as they were; a call of ETH_ReceiveFrame leaves TxDescIdx, every
\* TX descriptor, every TxBuffer byte and the TX channel's registers as they
\* were.
C19_RingsIndependent ==
    [][/\ SendReturned =>
             /\ UNCHANGED <<RxDescIdx, RxDescriptors, RxBuffer, rxframe>>
             /\ ETH_DMA'.DMACRDTPR = ETH_DMA.DMACRDTPR
             /\ ETH_DMA'.DMACRDLAR = ETH_DMA.DMACRDLAR
             /\ ETH_DMA'.DMACRDRLR = ETH_DMA.DMACRDRLR
             /\ ETH_DMA'.DMACRCR = ETH_DMA.DMACRCR
       /\ RecvReturned =>
             /\ UNCHANGED <<TxDescIdx, TxDescriptors, TxBuffer>>
             /\ ETH_DMA'.DMACTDTPR = ETH_DMA.DMACTDTPR
             /\ ETH_DMA'.DMACTDLAR = ETH_DMA.DMACTDLAR
             /\ ETH_DMA'.DMACTDRLR = ETH_DMA.DMACTDRLR
             /\ ETH_DMA'.DMACTCR = ETH_DMA.DMACTCR
      ]_vars

\* ETH_ReceiveFrame has delivered a frame while the TX ring is in use: its
\* cursor has moved and a descriptor is still with the DMA engine.
C19_Witness ==
    /\ call.op = "recv"
    /\ call.ret > 0
    /\ TxDescIdx # 0
    /\ \E i \in TxSlots : TxDescBusy(TxDescriptors[i])
    /\ ETH_DMA.DMACTDTPR # ETH_DMA.DMACRDTPR

\* C20: the bytes Buffer_Get has returned to the main loop are the bytes the
\* interrupt handler received, in order, none dropped and none repeated: at
\* every moment the first are a prefix of the second.
C20_NoByteLost ==
    /\ Len(consumed) <= Len(received)
    /\ consumed = SubSeq(received, 1, Len(consumed))

\* C21: once the button was pressed in a round before LED_GreenOn, the round
\* does not go on to STATE_READY or STATE_RESULT: the game is still waiting
\* with the press on record, or it is in STATE_CHEATED.
C21_EarlyPressCheats ==
    game.early =>
        \/ game.game_state = "STATE_CHEATED"
        \/ game.game_state = "STATE_WAITING" /\ game.button_pressed = 1

\* C22: game_state changes only along WAITING->READY, WAITING->CHEATED,
\* READY->RESULT, RESULT->WAITING and CHEATED->WAITING; the last three are
\* taken only with button_pressed set by a button interrupt since main last
\* cleared it; the interrupt handler leaves game_state as it is.
C22_GameStateEdges ==
    [][/\ game'.game_state # game.game_state =>
             /\ <<game.game_state, game'.game_state>> \in
                    {<<"STATE_WAITING", "STATE_READY">>,
                     <<"STATE_WAITING", "STATE_CHEATED">>,
                     <<"STATE_READY", "STATE_RESULT">>,
                     <<"STATE_RESULT", "STATE_WAITING">>,
                     <<"STATE_CHEATED", "STATE_WAITING">>}
             /\ game'.game_state \in {"STATE_RESULT", "STATE_WAITING"}
                    => game.button_pressed = 1 /\ game.pressed > 0
       /\ game'.pressed # game.pressed
             => game'.game_state = game.game_state
       /\ (game.button_pressed = 0 /\ game'.button_pressed = 1)
             => game'.pressed = game.pressed + 1
      ]_vars

\* A second round has begun after a cheated one: every edge but
\* READY->RESULT->WAITING was taken on the way.
C22_Witness ==
    /\ game.shown = "ShowCheated"
    /\ game.game_state = "STATE_READY"
    /\ game.pressed >= 2

\* C23: when main has loaded the settings at startup, current_tempo is the
\* tempo passed to the most recent SaveSettings call, and TEMPO_ANDANTE if
\* SaveSettings was never called, wherever the power cycles fell.
C23_ResumesLastSavedTempo ==
    [][(metronome.pc = "LoadSettings" /\ metronome'.pc = "loop")
          => metronome'.current_tempo =
                 IF metronome.saved = -1 THEN TEMPO_ANDANTE
                 ELSE metronome.saved
      ]_vars

\* C24: after a long press, the time passed to SetAlarm, and the time
\* ALRMAR then holds, is the RTC's time of day plus 10 seconds modulo 24
\* hours, each field in its range.
C24_AlarmTenSecondsAhead ==
    clock.ALRAE = 1 =>
        LET t == (clock.rtc.hours * 3600 + clock.rtc.minutes * 60
                    + clock.rtc.seconds + 10) % 86400
            due == [hours |-> t \div 3600,
                    minutes |-> (t \div 60) % 60,
                    seconds |-> t % 60]
        IN  /\ clock.passed = due
            /\ clock.passed.hours \in Hours
            /\ clock.passed.minutes \in Minutes
            /\ clock.passed.seconds \in Seconds
            /\ GetTime(clock.ALRMAR.time) = due
            /\ clock.ALRMAR.MSK4 = 1

C24_Witness ==
    /\ clock.ALRAE = 1
    /\ clock.rtc = [hours |-> 23, minutes |-> 59, seconds |-> 55]
    /\ clock.passed = [hours |-> 0, minutes |-> 0, seconds |-> 5]

SendAccepted == nCalls' = nCalls + 1 /\ call'.op = "send" /\ call'.ret = 1

\* C26 as stated: whatever its length, an accepted ETH_SendFrame call on slot
\* i leaves the buffer of every other TX slot as it was.
C26_SendStaysInSlot ==
    [][SendAccepted =>
          \A j \in TxSlots \ {call'.idx} : TxBuffer'[j] = TxBuffer[j]]_vars

\* C26, amended: an accepted ETH_SendFrame call on slot i writes exactly the
\* length bytes that start at TxBuffer[i][0] in the array's flat layout.  With
\* length <= 1536 they all lie inside TxBuffer[i] and no other slot's buffer
\* changes; with a larger length the bytes from offset 1536 on land in the
\* slots that follow, whether the DMA engine owns them or not.
C26_SendWritesLengthBytes ==
    [][SendAccepted =>
          /\ \A j \in TxSlots, o \in Probes :
                LET k == (j - call'.idx) * ETH_TX_BUF_SIZE + o
                IN  TxBuffer'[j][o] =
                        IF k >= 0 /\ k < call'.length
                        THEN Payload(call'.data, k)
                        ELSE TxBuffer[j][o]
          /\ call'.length <= ETH_TX_BUF_SIZE =>
                \A j \in TxSlots \ {call'.idx} : TxBuffer'[j] = TxBuffer[j]
          /\ (call'.length > ETH_TX_BUF_SIZE /\ call'.idx < ETH_TX_DESC_CNT - 1)
                => TxBuffer'[call'.idx + 1][0] =
                       Payload(call'.data, ETH_TX_BUF_SIZE)]_vars

\* the fifth frame, 1536 bytes long, has gone into slot 0 while the DMA
\* engine still owns slot 1, whose buffer holds the second frame
C26_Witness ==
    /\ call.op = "send"
    /\ call.ret = 1
    /\ call.length = ETH_TX_BUF_SIZE
    /\ call.idx = 0
    /\ nSent = 5
    /\ TxDescBusy(TxDescriptors[1])
    /\ TxBuffer[0][1535] = Payload(call.data, 1535)
    /\ TxBuffer[1][0] = Payload(FrameOf(1), 0)
    /\ TxBuffer[1][0] # Payload(call.data, ETH_TX_BUF_SIZE)

\* a step in which ETH_ReceiveFrame took the delivery path
RecvDelivered ==
    /\ call'.op = "recv"
    /\ RxDescIdx' # RxDescIdx
    /\ ~RxDescError(RxDescriptors[RxDescIdx])

C28_TotalLenNeverWraps ==
    build.done =>
        /\ build.ret = IF 14 + build.payload_len < 60
                       THEN 60 ELSE 14 + build.payload_len
        /\ 14 + build.payload_len >= 60 =>
              /\ \A k \in 1..6 :
                    /\ frame[k - 1] = build.dest_mac[k]
                    /\ frame[k + 5] = build.src_mac[k]
              /\ frame[12] = build.ethertype \div 256
              /\ frame[13] = build.ethertype % 256
              /\ \A o \in FrameOffsets :
                    (o >= 14 /\ o - 14 < build.payload_len)
                        => frame[o] = Payload(build.payload, o - 14)

\* C29: with the processor running, main gets past ETH_DMAReset and
\* ETH_InitPHY whatever the hardware does, also when the DMA engine never
\* clears the software-reset bit or the MAC never clears the MDIO busy bit.
C29_BringupTerminates == <>("ETH_InitPHY" \in main.done)

\* the bytes the buffer holds
Stored(buf) == (buf.head - buf.tail + 64) % 64

=============================================================================
